---- MODULE Spec2Model ----
(***************************************************************************)
(* Model of the FPV antenna tracker (antenna_tracker.py, vtx_service.py).  *)
(*                                                                         *)
(* Positions are servo units, RSSI values are ADC counts, times are        *)
(* milliseconds (the code's seconds * 1000).                               *)
(*                                                                         *)
(* The hardware is the environment: the servo is a physical position       *)
(* servo_pos that travels to the last accepted goal servo_goal; a servo    *)
(* transaction succeeds or fails; the ADC delivers one of RawPairs or      *)
(* raises.                                                                 *)
(***************************************************************************)
EXTENDS Integers, Sequences, FiniteSets, TLC

VARIABLES
    \* ---- AntennaTracker fields
    current_mode,          \* self.current_mode
    position,              \* self.position: the commanded position
    center_pos,            \* self.servo_config.center_pos
    left_limit,            \* self.servo_config.left_limit
    right_limit,           \* self.servo_config.right_limit
    rssi_offset,           \* self.rssi_offset
    noise_floor_left,      \* self.noise_floor_left
    noise_floor_right,     \* self.noise_floor_right
    rssi_max_left,         \* self.rssi_max_left
    rssi_max_right,        \* self.rssi_max_right
    left_rssi_buffer,      \* self.left_rssi_buffer  (deque, maxlen rssi_filter_size)
    right_rssi_buffer,     \* self.right_rssi_buffer
    scan_data,             \* self.scan_data
    scan_position,         \* self.scan_position
    last_scan_results,     \* self.last_scan_results
    last_auto_move_time,   \* self.last_auto_move_time
    \* ---- control-loop thread (AntennaTracker.run)
    run_pc,                \* where the thread is: "start", "start_scan": before the
                           \* loop; "loop": at the top of the while loop;
                           \* "finish_scan", "calibrate_min", "calibrate_max":
                           \* inside the method of that name
    samples,               \* the list samples of a calibration: its length and sums
    \* ---- environment
    now,                   \* time.time(), in ms
    horizon,               \* control-loop ticks start no later than this moment
    servo_pos,             \* physical position of the servo
    servo_goal,            \* goal position the servo last accepted
    \* ---- observation of the last step (what the handler did)
    ev,
    last_auto_write,       \* moments of the last two servo writes of process_auto_tracking
    captured,              \* which limits were captured by set_left_limit / set_right_limit
    ncmd,                  \* number of commands processed so far
    cmd_pc,                \* where the request thread is inside start_scan, or "idle"
    \* ---- VTX scan state (AntennaTracker.vtx_scan_*), guarded by vtx_scan_lock
    vtx_scan_in_progress,
    vtx_scan_current,      \* [band, channel]
    vtx_scan_grid,         \* band -> channel -> total RSSI or None
    vtx_scan_best,         \* [band, channel, rssi]
    vtx_scan_thread,       \* the workers launched so far: position and history of each
    \* ---- VtxService
    vtx_band,              \* VtxService._band
    vtx_channel,           \* VtxService._channel
    vtx_lock,              \* VtxService._lock: the caller that holds it, or NoHolder
    vtx_call,              \* the calls of set_band_channel and get_status under
                           \* way: where each caller is and its band and channel
    \* ---- status published by update_status
    last_status,           \* self.last_status: the keys of the dict
    nstatus,               \* number of update_status calls that have returned
    snapshot,              \* what the last get_status of a reader has returned
    \* ---- environment of the receiver
    tx,                    \* the cell the video transmitter sends on
    nerr,                  \* number of errors the receiver driver has raised
    vev,                   \* observation of the last step of the VTX scan
    skyzone                \* VtxService._vtx: initialized is false while it is
                           \* None; mosi is the bits SkyzoneVTX has clocked out
                           \* in the current set_channel, first bit first

trackerVars == <<current_mode, position, center_pos, left_limit, right_limit,
                 rssi_offset, noise_floor_left, noise_floor_right,
                 rssi_max_left, rssi_max_right, samples,
                 left_rssi_buffer, right_rssi_buffer, scan_data, scan_position,
                 last_scan_results, last_auto_move_time, run_pc, now, horizon,
                 servo_pos, servo_goal, ev, last_auto_write, captured, ncmd>>

svcVars == <<vtx_lock, vtx_call, last_status, nstatus, snapshot>>

vtxVars == <<vtx_scan_in_progress, vtx_scan_current, vtx_scan_grid, vtx_scan_best,
             vtx_scan_thread, vtx_band, vtx_channel, tx, nerr, vev, svcVars,
             skyzone>>

vars == <<trackerVars, vtxVars, cmd_pc>>

-----------------------------------------------------------------------------
(* Bounds of the model *)

\* the operator sends at most this many commands
\* start_vtx_scan launches at most this many workers
MaxVtxScans == 3
\* time passes in steps of this many ms while a worker waits for the receiver
VtxTimeStep == 350
\* the receiver driver raises at most this many times
MaxVtxErrors == 1
\* the operator sends at most this many commands
MaxCommands == 2
\* time.time() when the tracker is constructed
BootTime == 1000
\* the control loop is followed for this long after the construction
MaxRunTime == 600
\* the Auto controller is followed for this long
MaxAutoTime == 300
\* a scan over calibrated limits is followed for this long
MaxScanTime == 1150
\* an undisturbed scan is followed for this long
MaxScanLiveTime == 1400
\* the longest time the I/O of one tick takes before its servo write
MaxIoDelay == 100
\* a calibration starts within this time
MaxCalibTime == 200
\* the control loop is followed for this long around an exception
MaxRecoverTime == 1100
\* read_rssi is called at most this many times in a row
MaxReads == 3
\* a scan restarted by the operator is followed for this long
MaxRescanTime == 700
\* the control loop calls update_status at most this many times
MaxStatusUpdates == 2

(* Program constants *)

MANUAL == "manual"
AUTO == "auto"
SCAN == "scan"
CALIBRATE_MIN == "calibrate_min"
CALIBRATE_MAX == "calibrate_max"
Mode == {MANUAL, AUTO, SCAN, CALIBRATE_MIN, CALIBRATE_MAX}

ServoCenterPos == 2047
ServoLeftLimit == 1100
ServoRightLimit == 2700
step_units == 11
scan_step_units == 33
range_degrees == 146
rssi_filter_size == 1
rssi_threshold == 15
auto_step_small == 11
auto_step_medium == 22
auto_step_large == 44
auto_deadband == 500
auto_speed == 500
default_speed == 500
auto_move_cooldown == 100
InitialRssiOffset == 0 - 600
LoopSleep == 100
ErrorSleep == 1000
StartScanSleep == 500
ScanReadings == 5
ScanReadSleep == 50
MinScanEntries == 3
CalibrationDuration == 8
CalibrationRate == 10
InitialRssiMax == 4000

-----------------------------------------------------------------------------
(* Arithmetic helpers *)

Abs(x) == IF x < 0 THEN 0 - x ELSE x
Max(a, b) == IF a > b THEN a ELSE b
Min(a, b) == IF a < b THEN a ELSE b

RECURSIVE SeqSum(_)
SeqSum(s) == IF s = <<>> THEN 0 ELSE Head(s) + SeqSum(Tail(s))

\* n / d rounded to the nearest integer, ties to even (Python's round), d # 0
RoundDiv(n, d) ==
    LET nn == IF d < 0 THEN 0 - n ELSE n
        dd == Abs(d)
        q  == nn \div dd
        r  == nn - q * dd
    IN  IF 2 * r < dd THEN q
        ELSE IF 2 * r > dd THEN q + 1
        ELSE IF q % 2 = 0 THEN q ELSE q + 1

\* int(x) of Python for x = n / d: truncation toward zero, d > 0
TruncDiv(n, d) == IF n >= 0 THEN n \div d ELSE 0 - ((0 - n) \div d)

-----------------------------------------------------------------------------
(* Environment inputs *)

\* raw ADC counts (left channel, right channel) the antennas can deliver
RawPairs == {<<1000, 1000>>, <<1000, 1500>>, <<1000, 2200>>}
\* raw ADC counts with the antennas removed (calibrate_minimum)
NoisePairs == {<<100, 160>>, <<180, 80>>}
\* raw ADC counts with the antennas aimed at a near transmitter (calibrate_maximum)
SignalPairs == {<<3000, 3600>>}
\* where the servo can physically stand when the tracker starts
InitialServoPositions == {1000, 2047}
\* how many of the five reads of one scan step raise
ScanReadFailures == {0, 1}
\* time the I/O of a tick can take
IoDelays == {0, MaxIoDelay}
\* the angle parameter of set_angle: absent, not a number, or a number
AngleParams == {"missing", "invalid", "number"}
\* the numbers set_angle is called with, in tenths of a degree
Angles == {730}

\* limits the operator has captured before asking for a scan: the scan visits
\* left, left + 33, ... and the last step is clamped to the right limit
ScanLimits == {<<2047, 2080>>, <<2047, 2113>>, <<2047, 2114>>}

\* nfail: how many ADC reads of the handler raised; speed: the speed
\* process_auto_tracking passed to move_servo
NoEvent == [op |-> "init", prev |-> 0, wrote |-> FALSE, ok |-> FALSE, target |-> 0,
            ret |-> TRUE, L |-> 0, R |-> 0, t |-> 0, nfail |-> 0, speed |-> 0]
NoResults == [scan_complete |-> FALSE]
\* samples = []: a calibration uses its list only through len and the two sums
NoSamples == [n |-> 0, left |-> 0, right |-> 0]

-----------------------------------------------------------------------------
(* AngleMap: angles are tenths of a degree *)

\* position_to_angle raises ZeroDivisionError when the range is empty
RangeIsZero(ll, rl) == rl - ll = 0

\* an angle rounded to whole degrees
position_to_angle_WholeDegrees(p, ll, rl) ==
    10 * RoundDiv((p - ll) * range_degrees, rl - ll)

position_to_angle(p, ll, rl) == RoundDiv((p - ll) * range_degrees * 10, rl - ll)

angle_to_position(a, ll, rl) ==
    LET angle == Max(0, Min(range_degrees * 10, a))
    IN  TruncDiv(ll * range_degrees * 10 + angle * (rl - ll), range_degrees * 10)

-----------------------------------------------------------------------------
(* RssiPipeline *)

\* a buffer that would never drop its oldest value
BufferAppend_KeepAll(buf, x) == Append(buf, x)

\* deque(maxlen = rssi_filter_size).append
BufferAppend(buf, x) ==
    IF Len(buf) < rssi_filter_size THEN Append(buf, x) ELSE Append(Tail(buf), x)

\* read_rssi: raw is a pair of RawPairs, failed says that readADC raised
read_rssi(raw, failed, lbuf, rbuf) ==
    IF failed
    THEN [left |-> 0, right |-> 0, lbuf |-> lbuf, rbuf |-> rbuf]
    ELSE LET left_calibrated  == raw[1] - noise_floor_left
             right_calibrated == raw[2] - noise_floor_right + rssi_offset
             lb == BufferAppend(lbuf, left_calibrated)
             rb == BufferAppend(rbuf, right_calibrated)
         IN  [left  |-> SeqSum(lb) \div Len(lb),
              right |-> SeqSum(rb) \div Len(rb),
              lbuf  |-> lb, rbuf |-> rb]

-----------------------------------------------------------------------------
(* ServoDriver use *)

\* move_servo from commanded position pos under limits ll, rl; write_ok says
\* that WritePosEx answers COMM_SUCCESS
move_servo(pos, ll, rl, new_position, write_ok) ==
    LET clamped == Max(ll, Min(rl, new_position))
    IN  IF Abs(clamped - pos) < 2
        THEN [position |-> pos, wrote |-> FALSE, ok |-> FALSE, target |-> clamped,
              ret |-> TRUE]
        ELSE IF write_ok
        THEN [position |-> clamped, wrote |-> TRUE, ok |-> TRUE, target |-> clamped,
              ret |-> ~RangeIsZero(ll, rl)]
        ELSE [position |-> pos, wrote |-> TRUE, ok |-> FALSE, target |-> clamped,
              ret |-> FALSE]

\* the goal of the servo after a move_servo result
GoalAfter(goal, m) == IF m.wrote /\ m.ok THEN m.target ELSE goal

\* the event record of a handler that called move_servo
MoveEvent(op, pos, m, l, r, t) ==
    [op |-> op, prev |-> pos, wrote |-> m.wrote, ok |-> m.ok, target |-> m.target,
     ret |-> m.ret, L |-> l, R |-> r, t |-> t, nfail |-> 0, speed |-> 0]

\* the event record of a command that read the servo position
CaptureEvent(op, ret, read) ==
    [op |-> op, prev |-> position, wrote |-> FALSE, ok |-> FALSE, target |-> read,
     ret |-> ret, L |-> 0, R |-> 0, t |-> now, nfail |-> 0, speed |-> 0]

\* the event record of a tick of which nfail ADC reads raised
WithFailures(e, nfail) == [e EXCEPT !.nfail = nfail]

\* the event record of a move_servo call made with speed=speed
WithSpeed(e, speed) == [e EXCEPT !.speed = speed]

\* the event record of a handler that did not call move_servo
PlainEvent(op, ret, l, r) ==
    [op |-> op, prev |-> position, wrote |-> FALSE, ok |-> FALSE, target |-> position,
     ret |-> ret, L |-> l, R |-> r, t |-> now, nfail |-> 0, speed |-> 0]

-----------------------------------------------------------------------------
(* Initial state: AntennaTracker.__init__ *)

InitTracker ==
    /\ current_mode = MANUAL
    /\ position = ServoCenterPos
    /\ center_pos = ServoCenterPos
    /\ left_limit = ServoLeftLimit
    /\ right_limit = ServoRightLimit
    /\ rssi_offset = InitialRssiOffset
    /\ noise_floor_left = 0
    /\ noise_floor_right = 0
    /\ rssi_max_left = InitialRssiMax
    /\ rssi_max_right = InitialRssiMax
    /\ samples = NoSamples
    /\ left_rssi_buffer = <<>>
    /\ right_rssi_buffer = <<>>
    /\ scan_data = <<>>
    /\ scan_position = ServoLeftLimit
    /\ last_scan_results = NoResults
    /\ last_auto_move_time = 0
    /\ run_pc = "start"
    /\ now = BootTime
    /\ horizon = BootTime + MaxRunTime
    /\ servo_pos \in InitialServoPositions
    /\ servo_goal = servo_pos
    /\ ev = NoEvent
    /\ last_auto_write = [prev |-> 0, last |-> 0]
    /\ captured = [left |-> FALSE, right |-> FALSE]
    /\ ncmd = 0
    /\ cmd_pc = "idle"

-----------------------------------------------------------------------------
(* The servo travels to its goal *)

ServoMove ==
    /\ servo_pos # servo_goal
    /\ servo_pos' = servo_goal
    /\ UNCHANGED <<current_mode, position, center_pos, left_limit, right_limit,
                   rssi_offset, noise_floor_left, noise_floor_right,
                   rssi_max_left, rssi_max_right, samples,
                   left_rssi_buffer, right_rssi_buffer, scan_data, scan_position,
                   last_scan_results, last_auto_move_time, run_pc, now, horizon,
                   servo_goal, ev, last_auto_write, captured, ncmd>>
    /\ UNCHANGED <<vtxVars, cmd_pc>>

-----------------------------------------------------------------------------
(* process_command, one action per command, run by the request thread *)

\* what no command touches
CommandFrame ==
    /\ ncmd < MaxCommands
    /\ ncmd' = ncmd + 1
    /\ UNCHANGED <<rssi_offset, noise_floor_left, noise_floor_right,
                   rssi_max_left, rssi_max_right, samples,
                   left_rssi_buffer, right_rssi_buffer, last_auto_move_time,
                   run_pc, now, horizon, servo_pos, last_auto_write>>
    /\ UNCHANGED <<vtxVars, cmd_pc>>

\* a command that sets Manual and moves to target
ManualMove(op, target) ==
    \E write_ok \in BOOLEAN :
        LET m == move_servo(position, left_limit, right_limit, target, write_ok)
        IN  /\ CommandFrame
            /\ current_mode' = MANUAL
            /\ position' = m.position
            /\ servo_goal' = GoalAfter(servo_goal, m)
            /\ ev' = MoveEvent(op, position, m, 0, 0, now)
            /\ UNCHANGED <<center_pos, left_limit, right_limit, scan_data,
                           scan_position, last_scan_results, captured>>

CmdLeft == ManualMove("left", position - step_units)

CmdRight == ManualMove("right", position + step_units)

CmdHome == ManualMove("home", center_pos)

CmdSetAngle ==
    \E kind \in AngleParams, a \in Angles :
        IF kind = "missing"
        THEN /\ CommandFrame
             /\ ev' = PlainEvent("set_angle", FALSE, 0, 0)
             /\ UNCHANGED <<current_mode, position, servo_goal, center_pos,
                            left_limit, right_limit, scan_data, scan_position,
                            last_scan_results, captured>>
        ELSE IF kind = "invalid"
        THEN /\ CommandFrame
             /\ current_mode' = MANUAL
             /\ ev' = PlainEvent("set_angle", FALSE, 0, 0)
             /\ UNCHANGED <<position, servo_goal, center_pos, left_limit,
                            right_limit, scan_data, scan_position,
                            last_scan_results, captured>>
        ELSE ManualMove("set_angle", angle_to_position(a, left_limit, right_limit))

\* set_center, set_left_limit, set_right_limit read the servo position; read_ok
\* says that ReadPos answers COMM_SUCCESS.  The message printed after the
\* assignment calls position_to_angle, which raises when the range is empty.
CmdSetCenter ==
    \E read_ok \in BOOLEAN :
        /\ CommandFrame
        /\ center_pos' = IF read_ok THEN servo_pos ELSE center_pos
        /\ ev' = CaptureEvent("set_center",
                              read_ok /\ ~RangeIsZero(left_limit, right_limit), servo_pos)
        /\ UNCHANGED <<current_mode, position, servo_goal, left_limit, right_limit,
                       scan_data, scan_position, last_scan_results, captured>>

CmdSetLeftLimit ==
    \E read_ok \in BOOLEAN :
        /\ CommandFrame
        /\ left_limit' = IF read_ok THEN servo_pos ELSE left_limit
        /\ captured' = IF read_ok THEN [captured EXCEPT !.left = TRUE] ELSE captured
        /\ ev' = CaptureEvent("set_left_limit",
                              read_ok /\ ~RangeIsZero(servo_pos, right_limit), servo_pos)
        /\ UNCHANGED <<current_mode, position, servo_goal, center_pos, right_limit,
                       scan_data, scan_position, last_scan_results>>

CmdSetRightLimit ==
    \E read_ok \in BOOLEAN :
        /\ CommandFrame
        /\ right_limit' = IF read_ok THEN servo_pos ELSE right_limit
        /\ captured' = IF read_ok THEN [captured EXCEPT !.right = TRUE] ELSE captured
        /\ ev' = CaptureEvent("set_right_limit",
                              read_ok /\ ~RangeIsZero(left_limit, servo_pos), servo_pos)
        /\ UNCHANGED <<current_mode, position, servo_goal, center_pos, left_limit,
                       scan_data, scan_position, last_scan_results>>

CmdAuto ==
    /\ CommandFrame
    /\ current_mode' = AUTO
    /\ ev' = PlainEvent("auto", TRUE, 0, 0)
    /\ UNCHANGED <<position, servo_goal, center_pos, left_limit, right_limit,
                   scan_data, scan_position, last_scan_results, captured>>

CmdManual ==
    /\ CommandFrame
    /\ current_mode' = MANUAL
    /\ ev' = PlainEvent("manual", TRUE, 0, 0)
    /\ UNCHANGED <<position, servo_goal, center_pos, left_limit, right_limit,
                   scan_data, scan_position, last_scan_results, captured>>

\* a start that keeps the results of the previous scan
start_scan_KeepResults(op, t, write_ok) ==
    LET m == move_servo(position, left_limit, right_limit, left_limit, write_ok)
    IN  /\ current_mode' = SCAN
        /\ scan_data' = <<>>
        /\ UNCHANGED last_scan_results
        /\ scan_position' = left_limit
        /\ position' = m.position
        /\ servo_goal' = GoalAfter(servo_goal, m)
        /\ ev' = MoveEvent(op, position, m, 0, 0, t)

\* start_scan: the move to the left limit
start_scan(op, t, write_ok) ==
    LET m == move_servo(position, left_limit, right_limit, left_limit, write_ok)
    IN  /\ current_mode' = SCAN
        /\ scan_data' = <<>>
        /\ last_scan_results' = NoResults
        /\ scan_position' = left_limit
        /\ position' = m.position
        /\ servo_goal' = GoalAfter(servo_goal, m)
        /\ ev' = MoveEvent(op, position, m, 0, 0, t)

CmdScan ==
    /\ CommandFrame
    /\ IF current_mode # SCAN
       THEN \E write_ok \in BOOLEAN : start_scan("scan", now, write_ok)
       ELSE /\ ev' = PlainEvent("scan", TRUE, 0, 0)
            /\ UNCHANGED <<current_mode, position, servo_goal, scan_data,
                           scan_position, last_scan_results>>
    /\ UNCHANGED <<center_pos, left_limit, right_limit, captured>>

CmdCalibrate ==
    /\ CommandFrame
    /\ current_mode' = CALIBRATE_MIN
    /\ ev' = PlainEvent("calibrate", TRUE, 0, 0)
    /\ UNCHANGED <<position, servo_goal, center_pos, left_limit, right_limit,
                   scan_data, scan_position, last_scan_results, captured>>

CmdCalibrateMax ==
    /\ CommandFrame
    /\ current_mode' = CALIBRATE_MAX
    /\ ev' = PlainEvent("calibrate_max", TRUE, 0, 0)
    /\ UNCHANGED <<position, servo_goal, center_pos, left_limit, right_limit,
                   scan_data, scan_position, last_scan_results, captured>>

CmdUnknown ==
    /\ CommandFrame
    /\ ev' = PlainEvent("unknown", FALSE, 0, 0)
    /\ UNCHANGED <<current_mode, position, servo_goal, center_pos, left_limit,
                   right_limit, scan_data, scan_position, last_scan_results,
                   captured>>

-----------------------------------------------------------------------------
(* AntennaTracker.run: the start, then one action per tick of the loop *)

\* what no step of the control loop touches
LoopFrame ==
    /\ UNCHANGED <<center_pos, left_limit, right_limit, servo_pos, captured, ncmd,
                   horizon>>
    /\ UNCHANGED <<vtxVars, cmd_pc>>

\* what only calibrate_minimum and calibrate_maximum assign
CalibFrame ==
    UNCHANGED <<rssi_offset, noise_floor_left, noise_floor_right, rssi_max_left,
                rssi_max_right, samples>>

\* run(): move to the centre before the loop
RunCenter ==
    /\ run_pc = "start"
    /\ \E write_ok \in BOOLEAN :
        LET m == move_servo(position, left_limit, right_limit, center_pos, write_ok)
        IN  /\ position' = m.position
            /\ servo_goal' = GoalAfter(servo_goal, m)
            /\ ev' = MoveEvent("run_center", position, m, 0, 0, now)
    /\ run_pc' = "start_scan"
    /\ LoopFrame
    /\ CalibFrame
    /\ UNCHANGED <<current_mode, left_rssi_buffer, right_rssi_buffer, scan_data,
                   scan_position, last_scan_results, last_auto_move_time, now,
                   last_auto_write>>

\* run(): the automatic start of the scan before the loop
RunStartScan ==
    /\ run_pc = "start_scan"
    /\ \E write_ok \in BOOLEAN : start_scan("run_start_scan", now, write_ok)
    /\ run_pc' = "loop"
    /\ now' = now + StartScanSleep
    /\ LoopFrame
    /\ CalibFrame
    /\ UNCHANGED <<left_rssi_buffer, right_rssi_buffer, last_auto_move_time,
                   last_auto_write>>

\* an except branch that would leave the tracker in Auto
ExceptMode_Auto == AUTO

\* the except branch of the loop of run(): self.current_mode = Mode.MANUAL
ExceptMode == MANUAL

\* a loop that would not sleep between two ticks
TickTime_NoSleep(d, raised) == now + d + (IF raised THEN ErrorSleep ELSE 0)

\* a tick that ends with the loop's sleep, or with the sleep of the except branch
TickTime(d, raised) == now + d + (IF raised THEN ErrorSleep ELSE LoopSleep)

\* the else branch of the loop: read_rssi and update_status
ManualTick ==
    /\ run_pc = "loop"
    /\ now <= horizon
    /\ current_mode = MANUAL
    /\ \E raw \in RawPairs, failed \in BOOLEAN, d \in IoDelays :
        LET r == read_rssi(raw, failed, left_rssi_buffer, right_rssi_buffer)
            raised == RangeIsZero(left_limit, right_limit)
        IN  /\ left_rssi_buffer' = r.lbuf
            /\ right_rssi_buffer' = r.rbuf
            /\ current_mode' = IF raised THEN ExceptMode ELSE current_mode
            /\ now' = TickTime(d, raised)
            /\ ev' = WithFailures(PlainEvent("manual_tick", ~raised, r.left, r.right),
                                  IF failed THEN 1 ELSE 0)
    /\ LoopFrame
    /\ CalibFrame
    /\ UNCHANGED <<position, servo_goal, scan_data, scan_position,
                   last_scan_results, last_auto_move_time, run_pc, last_auto_write>>

\* a table without the deadband test
AutoStep_NoDeadband(abs_difference) ==
    IF abs_difference < rssi_threshold THEN [step |-> 0, speed |-> 0]
    ELSE IF abs_difference < rssi_threshold * 2
    THEN [step |-> auto_step_small, speed |-> auto_speed]
    ELSE IF abs_difference < rssi_threshold * 4
    THEN [step |-> auto_step_medium, speed |-> auto_speed + 200]
    ELSE [step |-> auto_step_large, speed |-> auto_speed + 400]

\* n reads in a row: the first `failures` reads raise, the others
\* deliver raw; the sums of the values returned and the buffers afterwards
\* (the first read and the rest are bound as values, once each)
RECURSIVE ReadMany(_, _, _, _, _)
ReadMany(n, failures, raw, lbuf, rbuf) ==
    IF n = 0
    THEN [left |-> 0, right |-> 0, lbuf |-> lbuf, rbuf |-> rbuf]
    ELSE CHOOSE sums \in
             {[left |-> r.left + rest.left, right |-> r.right + rest.right,
               lbuf |-> rest.lbuf, rbuf |-> rest.rbuf] :
                 <<r, rest>> \in
                     {<<first, ReadMany(n - 1, Max(0, failures - 1), raw,
                                        first.lbuf, first.rbuf)>> :
                          first \in {read_rssi(raw, failures > 0, lbuf, rbuf)}}} :
             TRUE

\* a mean that divides by one less than the number of samples
Mean_OneLess(sum, n) == sum \div (n - 1)

\* sum(...) / len(samples), kept to the whole count below
Mean(sum, n) == sum \div n

\* samples.append((left, right))
AddSample(smp, left, right) ==
    [n |-> smp.n + 1, left |-> smp.left + left, right |-> smp.right + right]

\* what a step inside a calibration leaves alone
CalibStepFrame ==
    /\ LoopFrame
    /\ UNCHANGED <<position, servo_goal, scan_data, scan_position,
                   last_scan_results, last_auto_move_time, last_auto_write>>

\* calibrate_minimum when no command arrives while it runs, as one step: every
\* sample is the same raw pair; readADC or update_status may raise at the first
\* sample
CalibrateMinTick ==
    /\ run_pc = "loop"
    /\ now <= horizon
    /\ current_mode = CALIBRATE_MIN
    /\ \E raw \in RawPairs, failed \in BOOLEAN :
        LET raised == failed \/ RangeIsZero(left_limit, right_limit)
            total == CalibrationDuration * CalibrationRate
            all == [n |-> total, left |-> total * raw[1], right |-> total * raw[2]]
            avg_left == Mean(all.left, all.n)
            avg_right == Mean(all.right, all.n)
        IN  /\ current_mode' = IF raised THEN ExceptMode ELSE MANUAL
            /\ samples' = IF raised THEN NoSamples ELSE all
            /\ noise_floor_left' = IF raised THEN noise_floor_left ELSE avg_left
            /\ noise_floor_right' = IF raised THEN noise_floor_right ELSE avg_right
            /\ rssi_offset' = IF raised THEN rssi_offset ELSE avg_left - avg_right
            /\ now' = IF raised THEN now + ErrorSleep
                      ELSE now + total * (1000 \div CalibrationRate) + LoopSleep
            /\ ev' = PlainEvent("calibrate_min_end", ~raised, raw[1], raw[2])
    /\ CalibStepFrame
    /\ UNCHANGED <<rssi_max_left, rssi_max_right, left_rssi_buffer,
                   right_rssi_buffer, run_pc>>

\* calibrate_maximum when no command arrives while it runs, as one step: the
\* first `failures` reads raise, the others deliver the same raw pair.  Once
\* rssi_filter_size reads have delivered that pair the buffers and the values
\* read_rssi returns no longer change
CalibrateMaxTick ==
    /\ run_pc = "loop"
    /\ now <= horizon
    /\ current_mode = CALIBRATE_MAX
    /\ \E raw \in RawPairs, failures \in ScanReadFailures :
        LET raised == RangeIsZero(left_limit, right_limit)
            total == CalibrationDuration * CalibrationRate
            k == IF raised THEN 1 ELSE Min(total, rssi_filter_size + failures)
            r == ReadMany(k, failures, raw, left_rssi_buffer, right_rssi_buffer)
            last == read_rssi(raw, FALSE, r.lbuf, r.rbuf)
            all == [n |-> total, left |-> r.left + (total - k) * last.left,
                    right |-> r.right + (total - k) * last.right]
            avg_left == Mean(all.left, all.n)
            avg_right == Mean(all.right, all.n)
        IN  /\ current_mode' = IF raised THEN ExceptMode ELSE MANUAL
            /\ left_rssi_buffer' = r.lbuf
            /\ right_rssi_buffer' = r.rbuf
            /\ samples' = IF raised THEN NoSamples ELSE all
            /\ rssi_max_left' = IF raised THEN rssi_max_left ELSE avg_left
            /\ rssi_max_right' = IF raised THEN rssi_max_right ELSE avg_right
            /\ now' = IF raised THEN now + ErrorSleep
                      ELSE now + total * (1000 \div CalibrationRate) + LoopSleep
            /\ ev' = PlainEvent("calibrate_max_end", ~raised, avg_left, avg_right)
    /\ CalibStepFrame
    /\ UNCHANGED <<rssi_offset, noise_floor_left, noise_floor_right, run_pc>>

\* the loop dispatches to calibrate_minimum: samples = []
CalibrateMinBegin ==
    /\ run_pc = "loop"
    /\ now <= horizon
    /\ current_mode = CALIBRATE_MIN
    /\ run_pc' = "calibrate_min"
    /\ samples' = NoSamples
    /\ ev' = PlainEvent("calibrate_min_begin", TRUE, 0, 0)
    /\ CalibStepFrame
    /\ UNCHANGED <<current_mode, rssi_offset, noise_floor_left, noise_floor_right,
                   rssi_max_left, rssi_max_right, left_rssi_buffer,
                   right_rssi_buffer, now>>

\* calibrate_minimum: one pass of its for loop.  The pass returns when the mode
\* is no longer CalibrateMin; readADC or update_status may raise, which the
\* loop of run() catches
CalibrateMinSample ==
    /\ run_pc = "calibrate_min"
    /\ samples.n < CalibrationDuration * CalibrationRate
    /\ IF current_mode # CALIBRATE_MIN
       THEN /\ run_pc' = "loop"
            /\ samples' = NoSamples
            /\ now' = TickTime(0, FALSE)
            /\ ev' = PlainEvent("calibrate_min_abort", FALSE, 0, 0)
            /\ UNCHANGED current_mode
       ELSE \E raw \in NoisePairs, failed \in BOOLEAN :
            IF failed \/ RangeIsZero(left_limit, right_limit)
            THEN /\ run_pc' = "loop"
                 /\ samples' = NoSamples
                 /\ current_mode' = ExceptMode
                 /\ now' = TickTime(0, TRUE)
                 /\ ev' = PlainEvent("calibrate_min_error", FALSE, 0, 0)
            ELSE /\ samples' = AddSample(samples, raw[1], raw[2])
                 /\ now' = now + 1000 \div CalibrationRate
                 /\ ev' = PlainEvent("calibrate_min_sample", TRUE, raw[1], raw[2])
                 /\ UNCHANGED <<run_pc, current_mode>>
    /\ CalibStepFrame
    /\ UNCHANGED <<rssi_offset, noise_floor_left, noise_floor_right, rssi_max_left,
                   rssi_max_right, left_rssi_buffer, right_rssi_buffer>>

\* calibrate_minimum after its for loop: the analysis and the return to Manual
CalibrateMinFinish ==
    /\ run_pc = "calibrate_min"
    /\ samples.n = CalibrationDuration * CalibrationRate
    /\ LET avg_left == Mean(samples.left, samples.n)
           avg_right == Mean(samples.right, samples.n)
       IN  /\ noise_floor_left' = avg_left
           /\ noise_floor_right' = avg_right
           /\ rssi_offset' = avg_left - avg_right
           /\ ev' = PlainEvent("calibrate_min_end", TRUE, avg_left, avg_right)
    /\ current_mode' = MANUAL
    /\ run_pc' = "loop"
    /\ now' = TickTime(0, FALSE)
    /\ CalibStepFrame
    /\ UNCHANGED <<samples, rssi_max_left, rssi_max_right, left_rssi_buffer,
                   right_rssi_buffer>>

\* the loop dispatches to calibrate_maximum: samples = []
CalibrateMaxBegin ==
    /\ run_pc = "loop"
    /\ now <= horizon
    /\ current_mode = CALIBRATE_MAX
    /\ run_pc' = "calibrate_max"
    /\ samples' = NoSamples
    /\ ev' = PlainEvent("calibrate_max_begin", TRUE, 0, 0)
    /\ CalibStepFrame
    /\ UNCHANGED <<current_mode, rssi_offset, noise_floor_left, noise_floor_right,
                   rssi_max_left, rssi_max_right, left_rssi_buffer,
                   right_rssi_buffer, now>>

\* calibrate_maximum: one pass of its for loop; its samples come from read_rssi,
\* which returns (0, 0) when readADC raises; update_status may raise
CalibrateMaxSample ==
    /\ run_pc = "calibrate_max"
    /\ samples.n < CalibrationDuration * CalibrationRate
    /\ IF current_mode # CALIBRATE_MAX
       THEN /\ run_pc' = "loop"
            /\ samples' = NoSamples
            /\ now' = TickTime(0, FALSE)
            /\ ev' = PlainEvent("calibrate_max_abort", FALSE, 0, 0)
            /\ UNCHANGED <<current_mode, left_rssi_buffer, right_rssi_buffer>>
       ELSE \E raw \in SignalPairs, failed \in BOOLEAN :
            LET r == read_rssi(raw, failed, left_rssi_buffer, right_rssi_buffer)
            IN  /\ left_rssi_buffer' = r.lbuf
                /\ right_rssi_buffer' = r.rbuf
                /\ IF RangeIsZero(left_limit, right_limit)
                   THEN /\ run_pc' = "loop"
                        /\ samples' = NoSamples
                        /\ current_mode' = ExceptMode
                        /\ now' = TickTime(0, TRUE)
                        /\ ev' = PlainEvent("calibrate_max_error", FALSE, 0, 0)
                   ELSE /\ samples' = AddSample(samples, r.left, r.right)
                        /\ now' = now + 1000 \div CalibrationRate
                        /\ ev' = PlainEvent("calibrate_max_sample", TRUE,
                                            r.left, r.right)
                        /\ UNCHANGED <<run_pc, current_mode>>
    /\ CalibStepFrame
    /\ UNCHANGED <<rssi_offset, noise_floor_left, noise_floor_right, rssi_max_left,
                   rssi_max_right>>

\* calibrate_maximum after its for loop: the analysis and the return to Manual
CalibrateMaxFinish ==
    /\ run_pc = "calibrate_max"
    /\ samples.n = CalibrationDuration * CalibrationRate
    /\ LET avg_left == Mean(samples.left, samples.n)
           avg_right == Mean(samples.right, samples.n)
       IN  /\ rssi_max_left' = avg_left
           /\ rssi_max_right' = avg_right
           /\ ev' = PlainEvent("calibrate_max_end", TRUE, avg_left, avg_right)
    /\ current_mode' = MANUAL
    /\ run_pc' = "loop"
    /\ now' = TickTime(0, FALSE)
    /\ CalibStepFrame
    /\ UNCHANGED <<samples, rssi_offset, noise_floor_left, noise_floor_right,
                   left_rssi_buffer, right_rssi_buffer>>

\* a table whose last row keeps the speed of the first
AutoStep_LargeAtAutoSpeed(abs_difference) ==
    IF abs_difference < auto_deadband THEN [step |-> 0, speed |-> 0]
    ELSE IF abs_difference < rssi_threshold THEN [step |-> 0, speed |-> 0]
    ELSE IF abs_difference < rssi_threshold * 2
    THEN [step |-> auto_step_small, speed |-> auto_speed]
    ELSE IF abs_difference < rssi_threshold * 4
    THEN [step |-> auto_step_medium, speed |-> auto_speed + 200]
    ELSE [step |-> auto_step_large, speed |-> auto_speed]

\* a table whose deadband ends where the second row begins
AutoStep_NarrowDeadband(abs_difference) ==
    IF abs_difference < rssi_threshold * 2 THEN [step |-> 0, speed |-> 0]
    ELSE IF abs_difference < rssi_threshold THEN [step |-> 0, speed |-> 0]
    ELSE IF abs_difference < rssi_threshold * 2
    THEN [step |-> auto_step_small, speed |-> auto_speed]
    ELSE IF abs_difference < rssi_threshold * 4
    THEN [step |-> auto_step_medium, speed |-> auto_speed + 200]
    ELSE [step |-> auto_step_large, speed |-> auto_speed + 400]

\* the piecewise table of process_auto_tracking: step and speed for |L - R|
AutoStep(abs_difference) ==
    IF abs_difference < auto_deadband THEN [step |-> 0, speed |-> 0]
    ELSE IF abs_difference < rssi_threshold THEN [step |-> 0, speed |-> 0]
    ELSE IF abs_difference < rssi_threshold * 2
    THEN [step |-> auto_step_small, speed |-> auto_speed]
    ELSE IF abs_difference < rssi_threshold * 4
    THEN [step |-> auto_step_medium, speed |-> auto_speed + 200]
    ELSE [step |-> auto_step_large, speed |-> auto_speed + 400]

\* the cooldown test at the top of process_auto_tracking
InCooldown(current_time) == current_time - last_auto_move_time < auto_move_cooldown

\* process_auto_tracking, then the loop's sleep; the ADC delivers a pair of raws
AutoTickOn(raws) ==
    /\ run_pc = "loop"
    /\ now <= horizon
    /\ current_mode = AUTO
    /\ \E raw \in raws, failed \in BOOLEAN, d \in IoDelays, write_ok \in BOOLEAN :
        LET current_time == now
            r == read_rssi(raw, failed, left_rssi_buffer, right_rssi_buffer)
            raised == RangeIsZero(left_limit, right_limit)
            difference == r.left - r.right
            a == AutoStep(Abs(difference))
            new_position == IF difference > 0 THEN position - a.step
                            ELSE position + a.step
            m == move_servo(position, left_limit, right_limit, new_position, write_ok)
        IN  /\ left_rssi_buffer' = r.lbuf
            /\ right_rssi_buffer' = r.rbuf
            /\ now' = TickTime(d, raised)
            /\ IF raised \/ InCooldown(current_time) \/ a.step = 0
               THEN /\ current_mode' = IF raised THEN ExceptMode ELSE current_mode
                    /\ ev' = WithFailures(
                                 PlainEvent("auto_tick", ~raised, r.left, r.right),
                                 IF failed THEN 1 ELSE 0)
                    /\ UNCHANGED <<position, servo_goal, last_auto_move_time,
                                   last_auto_write>>
               ELSE /\ position' = m.position
                    /\ servo_goal' = GoalAfter(servo_goal, m)
                    /\ last_auto_move_time' =
                          IF m.ret THEN current_time ELSE last_auto_move_time
                    /\ last_auto_write' =
                          IF m.wrote
                          THEN [prev |-> last_auto_write.last, last |-> now + d]
                          ELSE last_auto_write
                    /\ ev' = WithSpeed(
                                 WithFailures(
                                     MoveEvent("auto_tick", position, m, r.left,
                                               r.right, now + d),
                                     IF failed THEN 1 ELSE 0),
                                 a.speed)
                    /\ UNCHANGED current_mode
    /\ LoopFrame
    /\ CalibFrame
    /\ UNCHANGED <<scan_data, scan_position, last_scan_results, run_pc>>

AutoTick == AutoTickOn(RawPairs)

\* the entry process_scan appends for a position and the averaged readings
ScanEntry(p, avg_left, avg_right) ==
    [position   |-> p,
     angle      |-> position_to_angle(p, left_limit, right_limit),
     left_rssi  |-> avg_left,
     right_rssi |-> avg_right,
     total_rssi |-> avg_left + avg_right,
     difference |-> Abs(avg_left - avg_right)]

\* min(scan_data, key = difference): the first entry with the least difference
BestIndex(data) ==
    CHOOSE i \in 1..Len(data) :
        /\ \A j \in 1..Len(data) : data[i].difference <= data[j].difference
        /\ \A j \in 1..(i - 1) : data[j].difference > data[i].difference

\* the results finish_scan stores
ScanResults(data, t) ==
    LET best_data == data[BestIndex(data)]
    IN  [scan_complete  |-> TRUE,
         timestamp      |-> t,
         best_position  |-> best_data.position,
         best_angle     |-> best_data.angle,
         min_difference |-> best_data.difference,
         scan_data      |-> [i \in 1..Len(data) |->
                               [angle      |-> data[i].angle,
                                rssi       |-> data[i].total_rssi,
                                left_rssi  |-> data[i].left_rssi,
                                right_rssi |-> data[i].right_rssi,
                                difference |-> data[i].difference]]]

\* get_scan_results: the stored results when they say scan_complete, else {}
get_scan_results ==
    IF last_scan_results.scan_complete THEN last_scan_results ELSE NoResults

\* a test that lets a scan of two entries through
Underfilled_OneLess(data) == Len(data) < MinScanEntries - 1

\* finish_scan: len(self.scan_data) < 3
Underfilled(data) == Len(data) < MinScanEntries

\* process_scan when the scan position has passed the right limit: finish_scan
\* up to its move to the best position; the loop then waits for the movement
FinishScan ==
    /\ run_pc = "loop"
    /\ now <= horizon
    /\ current_mode = SCAN
    /\ scan_position > right_limit
    /\ \E d \in IoDelays, write_ok \in BOOLEAN :
        IF Underfilled(scan_data)
        THEN /\ current_mode' = MANUAL
             /\ now' = TickTime(d, FALSE)
             /\ ev' = PlainEvent("finish_scan", FALSE, 0, 0)
             /\ UNCHANGED <<position, servo_goal, last_scan_results, run_pc>>
        ELSE LET res == ScanResults(scan_data, now)
                 m == move_servo(position, left_limit, right_limit,
                                 res.best_position, write_ok)
             IN  /\ last_scan_results' = res
                 /\ position' = m.position
                 /\ servo_goal' = GoalAfter(servo_goal, m)
                 /\ run_pc' = "finish_scan"
                 /\ now' = now + d
                 /\ ev' = MoveEvent("finish_scan", position, m, 0, 0, now + d)
                 /\ UNCHANGED current_mode
    /\ LoopFrame
    /\ CalibFrame
    /\ UNCHANGED <<left_rssi_buffer, right_rssi_buffer, scan_data, scan_position,
                   last_auto_move_time, last_auto_write>>

\* finish_scan after wait_for_movement: the switch to Auto, then the loop's sleep
FinishScanAuto ==
    /\ run_pc = "finish_scan"
    /\ current_mode' = AUTO
    /\ run_pc' = "loop"
    /\ now' = TickTime(0, FALSE)
    /\ ev' = PlainEvent("finish_scan_auto", TRUE, 0, 0)
    /\ LoopFrame
    /\ CalibFrame
    /\ UNCHANGED <<position, servo_goal, left_rssi_buffer, right_rssi_buffer,
                   scan_data, scan_position, last_scan_results,
                   last_auto_move_time, last_auto_write>>

\* a step that would leave the scan position where it is
NextScanPosition_Stay(p) == p

\* process_scan: self.scan_position += self.servo_config.scan_step_units
NextScanPosition(p) == p + scan_step_units

\* process_scan: one step of the scan; the ADC delivers a pair of raws, and
\* as many of the five reads raise as a number of fails
ScanStepOn(raws, fails) ==
    /\ run_pc = "loop"
    /\ now <= horizon
    /\ current_mode = SCAN
    /\ ~(scan_position > right_limit)
    /\ \E raw \in raws, failures \in fails, d \in IoDelays,
          write_ok \in BOOLEAN :
        LET rs == ReadMany(ScanReadings, Min(failures, ScanReadings), raw,
                           left_rssi_buffer, right_rssi_buffer)
            avg_left == rs.left \div ScanReadings
            avg_right == rs.right \div ScanReadings
            raised == RangeIsZero(left_limit, right_limit)
            next_position == NextScanPosition(scan_position)
            m == move_servo(position, left_limit, right_limit, next_position,
                            write_ok)
            t == now + ScanReadings * ScanReadSleep + d
        IN  /\ left_rssi_buffer' = rs.lbuf
            /\ right_rssi_buffer' = rs.rbuf
            /\ IF raised
               THEN /\ current_mode' = ExceptMode
                    /\ now' = t + ErrorSleep
                    /\ ev' = WithFailures(
                                 PlainEvent("scan_step", FALSE, avg_left, avg_right),
                                 failures)
                    /\ UNCHANGED <<scan_data, scan_position, position, servo_goal>>
               ELSE /\ scan_data' = Append(scan_data,
                                           ScanEntry(scan_position, avg_left, avg_right))
                    /\ scan_position' = next_position
                    /\ position' = m.position
                    /\ servo_goal' = GoalAfter(servo_goal, m)
                    /\ now' = t + LoopSleep
                    /\ ev' = WithFailures(
                                 MoveEvent("scan_step", position, m, avg_left,
                                           avg_right, t),
                                 failures)
                    /\ UNCHANGED current_mode
    /\ LoopFrame
    /\ CalibFrame
    /\ UNCHANGED <<last_scan_results, last_auto_move_time, run_pc, last_auto_write>>

ScanStep == ScanStepOn(RawPairs, ScanReadFailures)

-----------------------------------------------------------------------------
(* VtxService and the VTX scan: start_vtx_scan and its worker.  One action per
   section of the worker between two points where another thread can observe
   or change what it shares: the set_band_channel of a cell (with the update of
   vtx_scan_current before it), the read and the store of a cell, the clearing
   of the flag in the error branch, the switch to the best cell, the finally
   block.  A worker sleeps the settle time between the set_band_channel and
   the read of a cell; its other sections take no time. *)

\* None in a grid cell and in the fields of current and best
None == 0 - 1
NoBand == "None"

\* an order with the last two bands exchanged
order_Swapped == <<"A", "B", "E", "F", "L", "R">>

\* the order of the bands in _worker, and range(1, 9)
order == <<"A", "B", "E", "F", "R", "L">>
NumChannels == 8
\* min_settle_ms of _worker for the default settle_ms
SettleMs == 700
Bands == {order[i] : i \in 1..Len(order)}
NumCells == Len(order) * NumChannels

\* the i-th cell the two nested loops of _worker visit
CellBand(i) == order[((i - 1) \div NumChannels) + 1]
CellChannel(i) == ((i - 1) % NumChannels) + 1

EmptyGrid == [b \in Bands |-> [c \in 1..NumChannels |-> None]]
NoCurrent == [band |-> NoBand, channel |-> None]
NoBest == [band |-> NoBand, channel |-> None, rssi |-> None]

Workers == 1..MaxVtxScans
\* pc: where the worker is; idx: the cell of its loops; settle: what is left of
\* its sleep; calls: the cells it has called set_band_channel for; aborted: it
\* has met a driver error
IdleWorker == [pc |-> "idle", idx |-> 0, settle |-> 0, calls |-> <<>>,
               aborted |-> FALSE]
DoneWorker == [IdleWorker EXCEPT !.pc = "done"]
NoVtxEvent == [op |-> "init", w |-> 0, ret |-> FALSE, band |-> NoBand,
               channel |-> None, L |-> 0, R |-> 0]
VtxEvent(op, w, ret, band, channel, l, r) ==
    [op |-> op, w |-> w, ret |-> ret, band |-> band, channel |-> channel,
     L |-> l, R |-> r]

\* raw ADC counts while the receiver is tuned to (band, channel): the signal of
\* the transmitter on its own cell, noise elsewhere
VtxRaw(band, channel) ==
    IF <<band, channel>> = tx THEN <<4800, 4800>> ELSE <<1000, 1000>>

\* the threads that call VtxService: POST /vtx, the worker of the VTX scan, and
\* the control loop, whose update_status calls get_status
Setters == {"vtx_set", "worker"}
Callers == Setters \cup {"update_status"}
NoHolder == "free"
\* a caller that is not inside VtxService, nor inside update_status
IdleCall == [pc |-> "idle", band |-> NoBand, channel |-> None]
\* the keys update_status puts in the dict it assigns to last_status
BaseKeys ==
    {"rssi_a", "rssi_b", "angle", "angle_degrees", "mode", "auto_mode",
     "scan_in_progress", "servo_voltage", "servo_temperature", "servo_moving",
     "timestamp"}
NoSnapshot == [keys |-> {}, n |-> 0 - 1]
\* self._vtx = None
NoReceiver == [initialized |-> FALSE, mosi |-> <<>>]

InitVtx ==
    /\ vtx_scan_in_progress = FALSE
    /\ vtx_scan_current = NoCurrent
    /\ vtx_scan_grid = EmptyGrid
    /\ vtx_scan_best = NoBest
    /\ vtx_scan_thread = [w \in Workers |-> IdleWorker]
    /\ vtx_band = "A"
    /\ vtx_channel = 1
    /\ nerr = 0
    /\ vev = NoVtxEvent
    /\ vtx_lock = NoHolder
    /\ vtx_call = [c \in Callers |-> IdleCall]
    /\ last_status = {}
    /\ nstatus = 0
    /\ snapshot = NoSnapshot
    /\ skyzone = NoReceiver

\* what the VTX scan leaves alone of the tracker
VtxFrame ==
    UNCHANGED <<current_mode, position, center_pos, left_limit, right_limit,
                rssi_offset, noise_floor_left, noise_floor_right, rssi_max_left,
                rssi_max_right, samples, scan_data,
                scan_position, last_scan_results, last_auto_move_time, run_pc, now,
                horizon, servo_pos, servo_goal, ev, last_auto_write, captured,
                ncmd, cmd_pc, tx, svcVars, skyzone>>

\* a start that would not test vtx_scan_in_progress
start_vtx_scan_NoCheck ==
    /\ \E w \in Workers :
        /\ vtx_scan_thread[w].pc = "idle"
        /\ \A v \in 1..(w - 1) : vtx_scan_thread[v].pc # "idle"
        /\ vtx_scan_in_progress' = TRUE
        /\ vtx_scan_current' = NoCurrent
        /\ vtx_scan_grid' = EmptyGrid
        /\ vtx_scan_best' = NoBest
        /\ vtx_scan_thread' =
              [vtx_scan_thread EXCEPT ![w] = [IdleWorker EXCEPT !.pc = "tune",
                                                                !.idx = 1]]
        /\ vev' = VtxEvent("start", w, TRUE, NoBand, None, 0, 0)
    /\ UNCHANGED <<vtx_band, vtx_channel, nerr, left_rssi_buffer, right_rssi_buffer>>
    /\ VtxFrame

\* start_vtx_scan: the section under vtx_scan_lock, then the launch of the worker
start_vtx_scan ==
    /\ IF vtx_scan_in_progress
       THEN /\ vev' = VtxEvent("start", 0, FALSE, NoBand, None, 0, 0)
            /\ UNCHANGED <<vtx_scan_in_progress, vtx_scan_current, vtx_scan_grid,
                           vtx_scan_best, vtx_scan_thread>>
       ELSE \E w \in Workers :
            /\ vtx_scan_thread[w].pc = "idle"
            /\ \A v \in 1..(w - 1) : vtx_scan_thread[v].pc # "idle"
            /\ vtx_scan_in_progress' = TRUE
            /\ vtx_scan_current' = NoCurrent
            /\ vtx_scan_grid' = EmptyGrid
            /\ vtx_scan_best' = NoBest
            /\ vtx_scan_thread' =
                  [vtx_scan_thread EXCEPT ![w] = [IdleWorker EXCEPT !.pc = "tune",
                                                                    !.idx = 1]]
            /\ vev' = VtxEvent("start", w, TRUE, NoBand, None, 0, 0)
    /\ UNCHANGED <<vtx_band, vtx_channel, nerr, left_rssi_buffer, right_rssi_buffer>>
    /\ VtxFrame

\* VtxService.set_band_channel for a valid cell: raises when the driver raises
set_band_channel(band, channel, raises) ==
    IF raises
    THEN /\ nerr' = nerr + 1
         /\ UNCHANGED <<vtx_band, vtx_channel>>
    ELSE /\ vtx_band' = band
         /\ vtx_channel' = channel
         /\ UNCHANGED nerr

\* a worker that would go on to the read of the cell after a driver error
TuneCell_IgnoreError(w) ==
    LET t == vtx_scan_thread[w]
        band == CellBand(t.idx)
        ch == CellChannel(t.idx)
    IN  /\ t.pc = "tune"
        /\ vtx_scan_current' = [band |-> band, channel |-> ch]
        /\ \E raises \in {FALSE} \cup {nerr < MaxVtxErrors} :
            /\ set_band_channel(band, ch, raises)
            /\ vtx_scan_thread' =
                  [vtx_scan_thread EXCEPT
                      ![w].pc = "store",
                      ![w].settle = SettleMs,
                      ![w].aborted = raises,
                      ![w].calls = Append(t.calls, <<band, ch>>)]
            /\ vev' = VtxEvent("tune", w, ~raises, band, ch, 0, 0)
        /\ UNCHANGED <<vtx_scan_in_progress, vtx_scan_grid, vtx_scan_best,
                       left_rssi_buffer, right_rssi_buffer>>
        /\ VtxFrame

\* _worker: vtx_scan_current and set_band_channel for the cell
TuneCell(w) ==
    LET t == vtx_scan_thread[w]
        band == CellBand(t.idx)
        ch == CellChannel(t.idx)
    IN  /\ t.pc = "tune"
        /\ vtx_scan_current' = [band |-> band, channel |-> ch]
        /\ \E raises \in {FALSE} \cup {nerr < MaxVtxErrors} :
            /\ set_band_channel(band, ch, raises)
            /\ vtx_scan_thread' =
                  [vtx_scan_thread EXCEPT
                      ![w].pc = IF raises THEN "error_clear" ELSE "store",
                      ![w].settle = IF raises THEN 0 ELSE SettleMs,
                      ![w].aborted = raises,
                      ![w].calls = Append(t.calls, <<band, ch>>)]
            /\ vev' = VtxEvent("tune", w, ~raises, band, ch, 0, 0)
        /\ UNCHANGED <<vtx_scan_in_progress, vtx_scan_grid, vtx_scan_best,
                       left_rssi_buffer, right_rssi_buffer>>
        /\ VtxFrame

\* _worker: after the settle time read_rssi, then the store of the total and the
\* update of best under vtx_scan_lock
StoreCell(w) ==
    LET t == vtx_scan_thread[w]
        band == CellBand(t.idx)
        ch == CellChannel(t.idx)
        r == read_rssi(VtxRaw(vtx_band, vtx_channel), FALSE,
                       left_rssi_buffer, right_rssi_buffer)
        total == r.left + r.right
    IN  /\ t.pc = "store"
        /\ t.settle = 0
        /\ left_rssi_buffer' = r.lbuf
        /\ right_rssi_buffer' = r.rbuf
        /\ vtx_scan_grid' = [vtx_scan_grid EXCEPT ![band][ch] = total]
        /\ vtx_scan_best' =
              IF vtx_scan_best.rssi = None \/ total > vtx_scan_best.rssi
              THEN [band |-> band, channel |-> ch, rssi |-> total]
              ELSE vtx_scan_best
        /\ vtx_scan_thread' =
              IF t.idx < NumCells
              THEN [vtx_scan_thread EXCEPT ![w].pc = "tune", ![w].idx = t.idx + 1]
              ELSE [vtx_scan_thread EXCEPT ![w].pc = "switch"]
        /\ vev' = VtxEvent("store", w, TRUE, band, ch, r.left, r.right)
        /\ UNCHANGED <<vtx_scan_in_progress, vtx_scan_current, vtx_band,
                       vtx_channel, nerr>>
        /\ VtxFrame

\* _worker: the error branch clears the flag and returns
ErrorClear(w) ==
    /\ vtx_scan_thread[w].pc = "error_clear"
    /\ vtx_scan_in_progress' = FALSE
    /\ vtx_scan_thread' = [vtx_scan_thread EXCEPT ![w].pc = "finally"]
    /\ vev' = VtxEvent("error_clear", w, FALSE, NoBand, None, 0, 0)
    /\ UNCHANGED <<vtx_scan_current, vtx_scan_grid, vtx_scan_best, vtx_band,
                   vtx_channel, nerr, left_rssi_buffer, right_rssi_buffer>>
    /\ VtxFrame

\* _worker: after the full pass, copy best and switch the receiver to it
SwitchToBest(w) ==
    LET t == vtx_scan_thread[w]
        best == vtx_scan_best
    IN  /\ t.pc = "switch"
        /\ IF best.band # NoBand /\ best.channel # None /\ best.channel # 0
           THEN \E raises \in {FALSE} \cup {nerr < MaxVtxErrors} :
                /\ set_band_channel(best.band, best.channel, raises)
                /\ vtx_scan_thread' =
                      [vtx_scan_thread EXCEPT
                          ![w].pc = "finally",
                          ![w].calls = Append(t.calls, <<best.band, best.channel>>)]
                /\ vev' = VtxEvent("switch", w, ~raises, best.band, best.channel,
                                   0, 0)
           ELSE /\ vtx_scan_thread' = [vtx_scan_thread EXCEPT ![w].pc = "finally"]
                /\ vev' = VtxEvent("switch", w, FALSE, NoBand, None, 0, 0)
                /\ UNCHANGED <<vtx_band, vtx_channel, nerr>>
        /\ UNCHANGED <<vtx_scan_in_progress, vtx_scan_current, vtx_scan_grid,
                       vtx_scan_best, left_rssi_buffer, right_rssi_buffer>>
        /\ VtxFrame

\* a finally block that would leave the flag as it is
Finally_KeepFlag(w) ==
    /\ vtx_scan_thread[w].pc = "finally"
    /\ vtx_scan_thread' = [vtx_scan_thread EXCEPT ![w] = DoneWorker]
    /\ vev' = VtxEvent("finally", w, TRUE, NoBand, None, 0, 0)
    /\ UNCHANGED <<vtx_scan_in_progress, vtx_scan_current, vtx_scan_grid,
                   vtx_scan_best, vtx_band, vtx_channel, nerr, left_rssi_buffer,
                   right_rssi_buffer>>
    /\ VtxFrame

\* _worker: the finally block
Finally(w) ==
    /\ vtx_scan_thread[w].pc = "finally"
    /\ vtx_scan_in_progress' = FALSE
    /\ vtx_scan_thread' = [vtx_scan_thread EXCEPT ![w] = DoneWorker]
    /\ vev' = VtxEvent("finally", w, TRUE, NoBand, None, 0, 0)
    /\ UNCHANGED <<vtx_scan_current, vtx_scan_grid, vtx_scan_best, vtx_band,
                   vtx_channel, nerr, left_rssi_buffer, right_rssi_buffer>>
    /\ VtxFrame

\* the worker has a section to run that takes no time
Busy(w) ==
    \/ vtx_scan_thread[w].pc \in {"tune", "error_clear", "switch", "finally"}
    \/ vtx_scan_thread[w].pc = "store" /\ vtx_scan_thread[w].settle = 0

\* time.sleep(min_settle_ms / 1000.0): time passes for the sleeping workers
PassTime ==
    /\ \E w \in Workers : vtx_scan_thread[w].pc = "store"
    /\ \A w \in Workers : ~Busy(w)
    /\ vtx_scan_thread' =
          [w \in Workers |->
              IF vtx_scan_thread[w].pc = "store"
              THEN [vtx_scan_thread[w] EXCEPT
                       !.settle = Max(0, vtx_scan_thread[w].settle - VtxTimeStep)]
              ELSE vtx_scan_thread[w]]
    /\ vev' = VtxEvent("sleep", 0, TRUE, NoBand, None, 0, 0)
    /\ UNCHANGED <<vtx_scan_in_progress, vtx_scan_current, vtx_scan_grid,
                   vtx_scan_best, vtx_band, vtx_channel, nerr, left_rssi_buffer,
                   right_rssi_buffer>>
    /\ VtxFrame

-----------------------------------------------------------------------------
(* VtxService statement by statement, and update_status / get_status.
   set_band_channel and VtxService.get_status run under VtxService._lock;
   update_status assigns a new dict to last_status and then adds the keys vtx
   and vtx_scan to it; AntennaTracker.get_status copies last_status *)

\* the cells POST /vtx and the worker ask for
VtxTargets == {<<"R", 4>>, <<"L", 8>>}

\* what VtxService and update_status leave alone
SvcFrame ==
    UNCHANGED <<trackerVars, cmd_pc, vtx_scan_in_progress, vtx_scan_current,
                vtx_scan_grid, vtx_scan_best, vtx_scan_thread, tx, vev, skyzone>>

\* a lock taken without waiting for its holder
Acquire_NoWait(c) == vtx_lock' = c

\* with self._lock: entry
Acquire(c) == vtx_lock = NoHolder /\ vtx_lock' = c

\* an exit that would keep the lock
Release_Keep(c) == UNCHANGED vtx_lock

\* with self._lock: exit
Release(c) == vtx_lock' = NoHolder

\* set_band_channel is called with a valid band and channel
SvcCall(c) ==
    /\ vtx_call[c].pc = "idle"
    /\ \E target \in VtxTargets :
        vtx_call' = [vtx_call EXCEPT ![c] = [pc |-> "acquire", band |-> target[1],
                                             channel |-> target[2]]]
    /\ UNCHANGED <<vtx_lock, vtx_band, vtx_channel, nerr, last_status, nstatus,
                   snapshot>>
    /\ SvcFrame

\* set_band_channel: with self._lock
SvcAcquire(c) ==
    /\ vtx_call[c].pc = "acquire"
    /\ Acquire(c)
    /\ vtx_call' = [vtx_call EXCEPT ![c].pc = "emit"]
    /\ UNCHANGED <<vtx_band, vtx_channel, nerr, last_status, nstatus, snapshot>>
    /\ SvcFrame

\* set_band_channel: _ensure_initialized and _vtx.set_channel, which may raise;
\* the exception leaves the with block and releases the lock
SvcEmit(c) ==
    /\ vtx_call[c].pc = "emit"
    /\ \E raises \in {FALSE} \cup {nerr < MaxVtxErrors} :
        IF raises
        THEN /\ nerr' = nerr + 1
             /\ Release(c)
             /\ vtx_call' = [vtx_call EXCEPT ![c] = IdleCall]
        ELSE /\ vtx_call' = [vtx_call EXCEPT ![c].pc = "set_band"]
             /\ UNCHANGED <<nerr, vtx_lock>>
    /\ UNCHANGED <<vtx_band, vtx_channel, last_status, nstatus, snapshot>>
    /\ SvcFrame

\* set_band_channel: self._band = band
SvcSetBand(c) ==
    /\ vtx_call[c].pc = "set_band"
    /\ vtx_band' = vtx_call[c].band
    /\ vtx_call' = [vtx_call EXCEPT ![c].pc = "set_channel"]
    /\ UNCHANGED <<vtx_lock, vtx_channel, nerr, last_status, nstatus, snapshot>>
    /\ SvcFrame

\* set_band_channel: self._channel = channel, and the end of the with block
SvcSetChannel(c) ==
    /\ vtx_call[c].pc = "set_channel"
    /\ vtx_channel' = vtx_call[c].channel
    /\ Release(c)
    /\ vtx_call' = [vtx_call EXCEPT ![c] = IdleCall]
    /\ UNCHANGED <<vtx_band, nerr, last_status, nstatus, snapshot>>
    /\ SvcFrame

\* update_status: self.last_status = {...}
UpdateStatusBase ==
    /\ vtx_call["update_status"].pc = "idle"
    /\ nstatus < MaxStatusUpdates
    /\ last_status' = BaseKeys
    /\ vtx_call' = [vtx_call EXCEPT !["update_status"].pc = "acquire"]
    /\ UNCHANGED <<vtx_lock, vtx_band, vtx_channel, nerr, nstatus, snapshot>>
    /\ SvcFrame

\* VtxService.get_status called by update_status: with self._lock
StatusAcquire ==
    /\ vtx_call["update_status"].pc = "acquire"
    /\ Acquire("update_status")
    /\ vtx_call' = [vtx_call EXCEPT !["update_status"].pc = "read_band"]
    /\ UNCHANGED <<vtx_band, vtx_channel, nerr, last_status, nstatus, snapshot>>
    /\ SvcFrame

\* VtxService.get_status: 'band': self._band
StatusReadBand ==
    /\ vtx_call["update_status"].pc = "read_band"
    /\ vtx_call' = [vtx_call EXCEPT !["update_status"].pc = "read_channel",
                                    !["update_status"].band = vtx_band]
    /\ UNCHANGED <<vtx_lock, vtx_band, vtx_channel, nerr, last_status, nstatus,
                   snapshot>>
    /\ SvcFrame

\* VtxService.get_status: 'channel': self._channel, and the end of the with block
StatusReadChannel ==
    /\ vtx_call["update_status"].pc = "read_channel"
    /\ vtx_call' = [vtx_call EXCEPT !["update_status"].pc = "add_vtx",
                                    !["update_status"].channel = vtx_channel]
    /\ Release("update_status")
    /\ UNCHANGED <<vtx_band, vtx_channel, nerr, last_status, nstatus, snapshot>>
    /\ SvcFrame

\* update_status: self.last_status["vtx"] = ...
StatusAddVtx ==
    /\ vtx_call["update_status"].pc = "add_vtx"
    /\ last_status' = last_status \cup {"vtx"}
    /\ vtx_call' = [vtx_call EXCEPT !["update_status"].pc = "add_vtx_scan"]
    /\ UNCHANGED <<vtx_lock, vtx_band, vtx_channel, nerr, nstatus, snapshot>>
    /\ SvcFrame

\* update_status: self.last_status["vtx_scan"] = ..., and the return
StatusAddVtxScan ==
    /\ vtx_call["update_status"].pc = "add_vtx_scan"
    /\ last_status' = last_status \cup {"vtx_scan"}
    /\ nstatus' = nstatus + 1
    /\ vtx_call' = [vtx_call EXCEPT !["update_status"].pc = "idle"]
    /\ UNCHANGED <<vtx_lock, vtx_band, vtx_channel, nerr, snapshot>>
    /\ SvcFrame

\* AntennaTracker.get_status called by a reader (GET /status): the copy of
\* last_status, with the number of updates that had returned before it
GetStatus ==
    /\ snapshot' = [keys |-> last_status, n |-> nstatus]
    /\ UNCHANGED <<vtx_lock, vtx_call, vtx_band, vtx_channel, nerr, last_status,
                   nstatus>>
    /\ SvcFrame

InitSvc ==
    /\ InitTracker
    /\ servo_pos = ServoCenterPos
    /\ InitVtx
    /\ tx = <<NoBand, 0>>

NextSvc ==
    \/ \E c \in Setters : SvcCall(c)
    \/ \E c \in Setters : SvcAcquire(c)
    \/ \E c \in Setters : SvcEmit(c)
    \/ \E c \in Setters : SvcSetBand(c)
    \/ \E c \in Setters : SvcSetChannel(c)
    \/ UpdateStatusBase
    \/ StatusAcquire
    \/ StatusReadBand
    \/ StatusReadChannel
    \/ StatusAddVtx
    \/ StatusAddVtxScan
    \/ GetStatus

SpecSvc == InitSvc /\ [][NextSvc]_vars

-----------------------------------------------------------------------------
(* The tracker: the control loop, the commands of the operator, the servo *)

\* no video transmitter is on the air
NoTransmitter == <<NoBand, 0>>

Init == InitTracker /\ InitVtx /\ tx = NoTransmitter

\* within MaxRunTime no scan records its third entry, so the second half of
\* finish_scan (FinishScanAuto) has no state to start from here; SpecScan follows it
Next ==
    \/ RunCenter
    \/ RunStartScan
    \/ ManualTick
    \/ AutoTick
    \/ ScanStep
    \/ FinishScan
    \/ CalibrateMinTick
    \/ CalibrateMaxTick
    \/ ServoMove
    \/ CmdLeft
    \/ CmdRight
    \/ CmdHome
    \/ CmdSetAngle
    \/ CmdSetCenter
    \/ CmdSetLeftLimit
    \/ CmdSetRightLimit
    \/ CmdAuto
    \/ CmdManual
    \/ CmdScan
    \/ CmdCalibrate
    \/ CmdCalibrateMax
    \/ CmdUnknown

Spec == Init /\ [][Next]_vars

-----------------------------------------------------------------------------
(* A scan over captured limits: the operator has driven the antenna to the
   right, captured both limits (set_left_limit, set_right_limit) and the
   tracker is in Manual at the right limit when the operator asks for a scan;
   the operator can also send manual, at any moment.  The ticks of the loop in
   Manual change only the filter buffers and the clock and are not followed *)

\* the raw pair of the last Manual tick before the command
LastRaw == <<1000, 1000>>

InitScan ==
    /\ current_mode = MANUAL
    /\ \E lim \in ScanLimits :
        /\ left_limit = lim[1]
        /\ right_limit = lim[2]
    /\ position = right_limit
    /\ servo_pos = right_limit
    /\ servo_goal = right_limit
    /\ center_pos = ServoCenterPos
    /\ rssi_offset = InitialRssiOffset
    /\ noise_floor_left = 0
    /\ noise_floor_right = 0
    /\ rssi_max_left = InitialRssiMax
    /\ rssi_max_right = InitialRssiMax
    /\ samples = NoSamples
    /\ left_rssi_buffer = <<LastRaw[1]>>
    /\ right_rssi_buffer = <<LastRaw[2] + InitialRssiOffset>>
    /\ scan_data = <<>>
    /\ scan_position = ServoLeftLimit
    /\ last_scan_results = NoResults
    /\ last_auto_move_time = 0
    /\ run_pc = "loop"
    /\ now = BootTime
    /\ horizon = BootTime + MaxScanTime
    /\ ev = NoEvent
    /\ last_auto_write = [prev |-> 0, last |-> 0]
    /\ captured = [left |-> TRUE, right |-> TRUE]
    /\ ncmd = MaxCommands - 2
    /\ cmd_pc = "idle"
    /\ InitVtx
    /\ tx = NoTransmitter

NextScan ==
    \/ CmdScan
    \/ CmdManual
    \/ ScanStep
    \/ FinishScan
    \/ FinishScanAuto
    \/ AutoTick
    \/ ServoMove

SpecScan == InitScan /\ [][NextScan]_vars

-----------------------------------------------------------------------------
(* The calibrations, sample by sample, and the commands that arrive while one
   runs: the operator has stopped the scan of the start with manual, the
   antenna stands at the left limit, and the operator asks for a calibration *)

InitCalib ==
    /\ current_mode = MANUAL
    /\ position = ServoLeftLimit
    /\ servo_pos = ServoLeftLimit
    /\ servo_goal = ServoLeftLimit
    /\ center_pos = ServoCenterPos
    /\ left_limit = ServoLeftLimit
    /\ right_limit = ServoRightLimit
    /\ rssi_offset = InitialRssiOffset
    /\ noise_floor_left = 0
    /\ noise_floor_right = 0
    /\ rssi_max_left = InitialRssiMax
    /\ rssi_max_right = InitialRssiMax
    /\ samples = NoSamples
    /\ left_rssi_buffer = <<LastRaw[1]>>
    /\ right_rssi_buffer = <<LastRaw[2] + InitialRssiOffset>>
    /\ scan_data = <<>>
    /\ scan_position = ServoLeftLimit
    /\ last_scan_results = NoResults
    /\ last_auto_move_time = 0
    /\ run_pc = "loop"
    /\ now = BootTime
    /\ horizon = BootTime + MaxCalibTime
    /\ ev = NoEvent
    /\ last_auto_write = [prev |-> 0, last |-> 0]
    /\ captured = [left |-> FALSE, right |-> FALSE]
    /\ ncmd = MaxCommands - 2
    /\ cmd_pc = "idle"
    /\ InitVtx
    /\ tx = NoTransmitter

NextCalib ==
    \/ CmdCalibrate
    \/ CmdCalibrateMax
    \/ CmdManual
    \/ CmdAuto
    \/ CmdScan
    \/ CmdLeft
    \/ CalibrateMinBegin
    \/ CalibrateMinSample
    \/ CalibrateMinFinish
    \/ CalibrateMaxBegin
    \/ CalibrateMaxSample
    \/ CalibrateMaxFinish
    \/ ManualTick
    \/ AutoTick
    \/ ScanStep
    \/ ServoMove

SpecCalib == InitCalib /\ [][NextCalib]_vars

-----------------------------------------------------------------------------
(* Exceptions in the control loop: the operator has captured both limits where
   the servo stands (set_left_limit, set_right_limit at the centre), so the
   range is empty and position_to_angle, which update_status and process_scan
   call, divides by zero in every tick; readADC can also raise inside
   calibrate_minimum.  The operator asks for a mode, and the loop is followed
   past the sleep of its except branch *)

InitRecover ==
    /\ current_mode = MANUAL
    /\ position = ServoCenterPos
    /\ servo_pos = ServoCenterPos
    /\ servo_goal = ServoCenterPos
    /\ center_pos = ServoCenterPos
    /\ left_limit = ServoCenterPos
    /\ right_limit = ServoCenterPos
    /\ rssi_offset = InitialRssiOffset
    /\ noise_floor_left = 0
    /\ noise_floor_right = 0
    /\ rssi_max_left = InitialRssiMax
    /\ rssi_max_right = InitialRssiMax
    /\ samples = NoSamples
    /\ left_rssi_buffer = <<LastRaw[1]>>
    /\ right_rssi_buffer = <<LastRaw[2] + InitialRssiOffset>>
    /\ scan_data = <<>>
    /\ scan_position = ServoLeftLimit
    /\ last_scan_results = NoResults
    /\ last_auto_move_time = 0
    /\ run_pc = "loop"
    /\ now = BootTime
    /\ horizon = BootTime + MaxRecoverTime
    /\ ev = NoEvent
    /\ last_auto_write = [prev |-> 0, last |-> 0]
    /\ captured = [left |-> TRUE, right |-> TRUE]
    /\ ncmd = MaxCommands - 2
    /\ cmd_pc = "idle"
    /\ InitVtx
    /\ tx = NoTransmitter

NextRecover ==
    \/ CmdAuto
    \/ CmdScan
    \/ CmdCalibrate
    \/ CmdCalibrateMax
    \/ ManualTick
    \/ AutoTick
    \/ ScanStep
    \/ CalibrateMinTick
    \/ CalibrateMaxTick

SpecRecover == InitRecover /\ [][NextRecover]_vars

-----------------------------------------------------------------------------
(* read_rssi on its own: the calibration values are drawn from the values the
   calibrations can leave, and read_rssi is called several times in a row *)

\* noise floors and offsets: the initial ones and those calibrate_minimum
\* computes from NoisePairs and RawPairs
NoiseFloors == {0, 110, 1000}
RssiOffsets == {InitialRssiOffset, 0 - 40, 0}

\* the event record of a call of read_rssi: the raw counts it read and the
\* number of the call
ReadEvent(raw, failed, r, n) ==
    [op |-> "read_rssi", prev |-> position, wrote |-> FALSE, ok |-> FALSE,
     target |-> position, ret |-> ~failed, L |-> r.left, R |-> r.right, t |-> now,
     nfail |-> IF failed THEN 1 ELSE 0, raw_left |-> raw[1], raw_right |-> raw[2],
     n |-> n]

\* one call of read_rssi; ncmd counts the calls
ReadRssi ==
    /\ ncmd < MaxReads
    /\ \E raw \in RawPairs, failed \in BOOLEAN :
        LET r == read_rssi(raw, failed, left_rssi_buffer, right_rssi_buffer)
        IN  /\ left_rssi_buffer' = r.lbuf
            /\ right_rssi_buffer' = r.rbuf
            /\ ev' = ReadEvent(raw, failed, r, ncmd + 1)
    /\ ncmd' = ncmd + 1
    /\ UNCHANGED <<current_mode, position, center_pos, left_limit, right_limit,
                   rssi_offset, noise_floor_left, noise_floor_right, rssi_max_left,
                   rssi_max_right, samples, scan_data, scan_position,
                   last_scan_results, last_auto_move_time, run_pc, now, horizon,
                   servo_pos, servo_goal, last_auto_write, captured, cmd_pc,
                   vtxVars>>

InitRssi ==
    /\ current_mode = MANUAL
    /\ position = ServoCenterPos
    /\ servo_pos = ServoCenterPos
    /\ servo_goal = ServoCenterPos
    /\ center_pos = ServoCenterPos
    /\ left_limit = ServoLeftLimit
    /\ right_limit = ServoRightLimit
    /\ rssi_offset \in RssiOffsets
    /\ noise_floor_left \in NoiseFloors
    /\ noise_floor_right \in NoiseFloors
    /\ rssi_max_left = InitialRssiMax
    /\ rssi_max_right = InitialRssiMax
    /\ samples = NoSamples
    /\ left_rssi_buffer = <<>>
    /\ right_rssi_buffer = <<>>
    /\ scan_data = <<>>
    /\ scan_position = ServoLeftLimit
    /\ last_scan_results = NoResults
    /\ last_auto_move_time = 0
    /\ run_pc = "loop"
    /\ now = BootTime
    /\ horizon = BootTime
    /\ ev = NoEvent
    /\ last_auto_write = [prev |-> 0, last |-> 0]
    /\ captured = [left |-> FALSE, right |-> FALSE]
    /\ ncmd = 0
    /\ cmd_pc = "idle"
    /\ InitVtx
    /\ tx = NoTransmitter

NextRssi == ReadRssi

SpecRssi == InitRssi /\ [][NextRssi]_vars

-----------------------------------------------------------------------------
(* The angle map on its own: position_to_angle followed by angle_to_position,
   for every position between the default limits *)

\* the values round(angle, 1) can return: the angle is a binary float, and when
\* it lies halfway between two tenths round() takes either neighbour
AngleRoundings(p, ll, rl) ==
    LET n == (p - ll) * range_degrees * 10
        d == rl - ll
    IN  IF 2 * (n % d) = d THEN {n \div d, n \div d + 1}
        ELSE {position_to_angle(p, ll, rl)}

\* angle_to_position(position_to_angle(position)); the event keeps the position
\* in prev, the angle in L and the position computed back in target
RoundTrip ==
    /\ ev.op = "init"
    /\ \E angle \in AngleRoundings(position, left_limit, right_limit) :
        LET back == angle_to_position(angle, left_limit, right_limit)
        IN  ev' = [NoEvent EXCEPT !.op = "round_trip", !.prev = position,
                                  !.L = angle, !.target = back, !.t = now]
    /\ UNCHANGED <<current_mode, position, center_pos, left_limit, right_limit,
                   rssi_offset, noise_floor_left, noise_floor_right, rssi_max_left,
                   rssi_max_right, samples, left_rssi_buffer, right_rssi_buffer,
                   scan_data, scan_position, last_scan_results,
                   last_auto_move_time, run_pc, now, horizon, servo_pos, servo_goal,
                   last_auto_write, captured, ncmd, cmd_pc, vtxVars>>

InitAngle ==
    /\ current_mode = MANUAL
    /\ position \in ServoLeftLimit..ServoRightLimit
    /\ servo_pos = position
    /\ servo_goal = position
    /\ center_pos = ServoCenterPos
    /\ left_limit = ServoLeftLimit
    /\ right_limit = ServoRightLimit
    /\ rssi_offset = InitialRssiOffset
    /\ noise_floor_left = 0
    /\ noise_floor_right = 0
    /\ rssi_max_left = InitialRssiMax
    /\ rssi_max_right = InitialRssiMax
    /\ samples = NoSamples
    /\ left_rssi_buffer = <<>>
    /\ right_rssi_buffer = <<>>
    /\ scan_data = <<>>
    /\ scan_position = ServoLeftLimit
    /\ last_scan_results = NoResults
    /\ last_auto_move_time = 0
    /\ run_pc = "loop"
    /\ now = BootTime
    /\ horizon = BootTime
    /\ ev = NoEvent
    /\ last_auto_write = [prev |-> 0, last |-> 0]
    /\ captured = [left |-> FALSE, right |-> FALSE]
    /\ ncmd = 0
    /\ cmd_pc = "idle"
    /\ InitVtx
    /\ tx = NoTransmitter

NextAngle == RoundTrip

SpecAngle == InitAngle /\ [][NextAngle]_vars

-----------------------------------------------------------------------------
(* The angle in the published status.  update_status reads the actual position
   from the servo and publishes position_to_angle of it; when the read fails
   it publishes position_to_angle of the commanded position.  The servo stands
   anywhere on its turn, the limits are the default ones. *)

\* the greatest position the ST3215 reports
MAX_POSITION == 4095

\* read_servo_status and the angle fields of update_status; the event keeps the
\* published position in target and the published angle, in tenths, in L
UpdateStatusAngle ==
    /\ ev.op = "init"
    /\ \E read_ok \in BOOLEAN :
        LET pos == IF read_ok THEN servo_pos ELSE position
        IN  \E angle \in AngleRoundings(pos, left_limit, right_limit) :
                ev' = [NoEvent EXCEPT !.op = "update_status", !.ok = read_ok,
                                      !.prev = position, !.target = pos,
                                      !.L = angle, !.t = now]
    /\ UNCHANGED <<current_mode, position, center_pos, left_limit, right_limit,
                   rssi_offset, noise_floor_left, noise_floor_right, rssi_max_left,
                   rssi_max_right, samples, left_rssi_buffer, right_rssi_buffer,
                   scan_data, scan_position, last_scan_results,
                   last_auto_move_time, run_pc, now, horizon, servo_pos, servo_goal,
                   last_auto_write, captured, ncmd, cmd_pc, vtxVars>>

InitStatusAngle ==
    /\ current_mode = MANUAL
    /\ position = ServoCenterPos
    /\ servo_pos \in 0..MAX_POSITION
    /\ servo_goal = servo_pos
    /\ center_pos = ServoCenterPos
    /\ left_limit = ServoLeftLimit
    /\ right_limit = ServoRightLimit
    /\ rssi_offset = InitialRssiOffset
    /\ noise_floor_left = 0
    /\ noise_floor_right = 0
    /\ rssi_max_left = InitialRssiMax
    /\ rssi_max_right = InitialRssiMax
    /\ samples = NoSamples
    /\ left_rssi_buffer = <<>>
    /\ right_rssi_buffer = <<>>
    /\ scan_data = <<>>
    /\ scan_position = ServoLeftLimit
    /\ last_scan_results = NoResults
    /\ last_auto_move_time = 0
    /\ run_pc = "loop"
    /\ now = BootTime
    /\ horizon = BootTime
    /\ ev = NoEvent
    /\ last_auto_write = [prev |-> 0, last |-> 0]
    /\ captured = [left |-> FALSE, right |-> FALSE]
    /\ ncmd = 0
    /\ cmd_pc = "idle"
    /\ InitVtx
    /\ tx = NoTransmitter

NextStatusAngle == UpdateStatusAngle

SpecStatusAngle == InitStatusAngle /\ [][NextStatusAngle]_vars

-----------------------------------------------------------------------------
(* The Auto controller over the rows of its table.  The tracker is in Auto
   over the default limits; each tick reads a pair whose filtered difference
   L - R is one of AutoDifferences, which lie on both sides of every boundary
   of the table and of the deadband. *)

\* the differences L - R of the readings
AutoDifferences ==
    {0, 14, 15, 29, 30, 59, 60, 499, 500, 800,
     0 - 14, 0 - 15, 0 - 29, 0 - 30, 0 - 59, 0 - 60, 0 - 499, 0 - 500, 0 - 800}

\* raw ADC pairs that read_rssi turns into those differences
AutoRawPairs == {<<1000 + d, 1000 - InitialRssiOffset>> : d \in AutoDifferences}

InitAuto ==
    /\ current_mode = AUTO
    /\ position = ServoCenterPos
    /\ servo_pos = ServoCenterPos
    /\ servo_goal = ServoCenterPos
    /\ center_pos = ServoCenterPos
    /\ left_limit = ServoLeftLimit
    /\ right_limit = ServoRightLimit
    /\ rssi_offset = InitialRssiOffset
    /\ noise_floor_left = 0
    /\ noise_floor_right = 0
    /\ rssi_max_left = InitialRssiMax
    /\ rssi_max_right = InitialRssiMax
    /\ samples = NoSamples
    /\ left_rssi_buffer = <<LastRaw[1]>>
    /\ right_rssi_buffer = <<LastRaw[2] + InitialRssiOffset>>
    /\ scan_data = <<>>
    /\ scan_position = ServoLeftLimit
    /\ last_scan_results = NoResults
    /\ last_auto_move_time = 0
    /\ run_pc = "loop"
    /\ now = BootTime
    /\ horizon = BootTime + MaxAutoTime
    /\ ev = NoEvent
    /\ last_auto_write = [prev |-> 0, last |-> 0]
    /\ captured = [left |-> FALSE, right |-> FALSE]
    /\ ncmd = 0
    /\ cmd_pc = "idle"
    /\ InitVtx
    /\ tx = NoTransmitter

NextAuto == AutoTickOn(AutoRawPairs)

SpecAuto == InitAuto /\ [][NextAuto]_vars

-----------------------------------------------------------------------------
(* move_servo from the states the motion range can be in: the default limits,
   captured limits, and limits captured twice at the same position while the
   commanded position is still the start of the scan.  The operator sends
   left, right, home and set_angle. *)

\* left_limit, right_limit and the commanded position
MoveStates ==
    {<<ServoLeftLimit, ServoRightLimit, ServoCenterPos>>,
     <<ServoLeftLimit, ServoRightLimit, ServoLeftLimit>>,
     <<ServoLeftLimit, ServoRightLimit, ServoLeftLimit + 1>>,
     <<ServoLeftLimit, ServoRightLimit, ServoRightLimit>>,
     <<2047, 2114, 2080>>,
     <<2047, 2047, 2047>>,
     <<2047, 2047, ServoLeftLimit>>}

InitMove ==
    /\ current_mode = MANUAL
    /\ \E st \in MoveStates :
        /\ left_limit = st[1]
        /\ right_limit = st[2]
        /\ position = st[3]
        /\ captured = [left |-> st[1] # ServoLeftLimit,
                       right |-> st[2] # ServoRightLimit]
    /\ servo_pos = ServoCenterPos
    /\ servo_goal = position
    /\ center_pos = ServoCenterPos
    /\ rssi_offset = InitialRssiOffset
    /\ noise_floor_left = 0
    /\ noise_floor_right = 0
    /\ rssi_max_left = InitialRssiMax
    /\ rssi_max_right = InitialRssiMax
    /\ samples = NoSamples
    /\ left_rssi_buffer = <<LastRaw[1]>>
    /\ right_rssi_buffer = <<LastRaw[2] + InitialRssiOffset>>
    /\ scan_data = <<>>
    /\ scan_position = ServoLeftLimit
    /\ last_scan_results = NoResults
    /\ last_auto_move_time = 0
    /\ run_pc = "loop"
    /\ now = BootTime
    /\ horizon = BootTime
    /\ ev = NoEvent
    /\ last_auto_write = [prev |-> 0, last |-> 0]
    /\ ncmd = MaxCommands - 2
    /\ cmd_pc = "idle"
    /\ InitVtx
    /\ tx = NoTransmitter

NextMove ==
    \/ CmdLeft
    \/ CmdRight
    \/ CmdHome
    \/ CmdSetAngle

SpecMove == InitMove /\ [][NextMove]_vars

-----------------------------------------------------------------------------
(* A scan left alone.  start_scan has just run over captured limits, among
   them an empty range; its servo write has succeeded or failed.  No command
   arrives; the control loop is scheduled fairly.  Every servo write can fail
   and every wait for the servo can last until its timeout. *)

\* left_limit and right_limit when the scan starts
ScanLiveLimits == ScanLimits \cup {<<2047, 2047>>}

InitScanLive ==
    /\ current_mode = SCAN
    /\ \E lim \in ScanLiveLimits :
        /\ left_limit = lim[1]
        /\ right_limit = lim[2]
    /\ position \in {left_limit, right_limit}
    /\ servo_pos = right_limit
    /\ servo_goal = position
    /\ center_pos = ServoCenterPos
    /\ rssi_offset = InitialRssiOffset
    /\ noise_floor_left = 0
    /\ noise_floor_right = 0
    /\ rssi_max_left = InitialRssiMax
    /\ rssi_max_right = InitialRssiMax
    /\ samples = NoSamples
    /\ left_rssi_buffer = <<LastRaw[1]>>
    /\ right_rssi_buffer = <<LastRaw[2] + InitialRssiOffset>>
    /\ scan_data = <<>>
    /\ scan_position = left_limit
    /\ last_scan_results = NoResults
    /\ last_auto_move_time = 0
    /\ run_pc = "loop"
    /\ now = BootTime
    /\ horizon = BootTime + MaxScanLiveTime
    /\ ev = NoEvent
    /\ last_auto_write = [prev |-> 0, last |-> 0]
    /\ captured = [left |-> TRUE, right |-> TRUE]
    /\ ncmd = MaxCommands
    /\ cmd_pc = "idle"
    /\ InitVtx
    /\ tx = NoTransmitter

\* what the ADC delivers while the scan runs: equal signals, or the right one
\* stronger
ScanLiveRaws == {<<1000, 1000>>, <<1000, 2200>>}

\* the pass of the control loop in Scan, with no read that raises
ScanLoopStep ==
    \/ ScanStepOn(ScanLiveRaws, {0})
    \/ FinishScan
    \/ FinishScanAuto

NextScanLive ==
    \/ ScanStepOn(ScanLiveRaws, {0})
    \/ FinishScan
    \/ FinishScanAuto
    \/ ServoMove

SpecScanLive == InitScanLive /\ [][NextScanLive]_vars /\ WF_vars(ScanLoopStep)

-----------------------------------------------------------------------------
(* A scan restarted while it runs.  The tracker has started its scan over the
   default limits; the operator sends manual and scan.  start_scan runs in
   the request thread and process_scan in the control loop, and a thread can
   be preempted between any two statements: each assignment of start_scan is
   a step, and process_scan is three steps: the readings, the append of the
   entry, the advance of the scan position with its move.  The limits are the
   default ones, so position_to_angle does not raise *)

\* the five readings of process_scan deliver the same raw pair, none raises
ScanStepRead ==
    /\ run_pc = "loop"
    /\ now <= horizon
    /\ current_mode = SCAN
    /\ ~(scan_position > right_limit)
    /\ \E raw \in RawPairs :
        LET rs == ReadMany(ScanReadings, 0, raw, left_rssi_buffer, right_rssi_buffer)
        IN  /\ left_rssi_buffer' = rs.lbuf
            /\ right_rssi_buffer' = rs.rbuf
            /\ samples' = [n |-> ScanReadings, left |-> rs.left, right |-> rs.right]
            /\ ev' = PlainEvent("scan_read", TRUE, rs.left \div ScanReadings,
                                rs.right \div ScanReadings)
    /\ run_pc' = "process_scan"
    /\ now' = now + ScanReadings * ScanReadSleep
    /\ LoopFrame
    /\ UNCHANGED <<current_mode, position, servo_goal, scan_data, scan_position,
                   last_scan_results, last_auto_move_time, last_auto_write,
                   rssi_offset, noise_floor_left, noise_floor_right, rssi_max_left,
                   rssi_max_right>>

\* process_scan: self.scan_data.append({'position': self.scan_position, ...})
ScanStepAppend ==
    /\ run_pc = "process_scan"
    /\ LET avg_left == samples.left \div samples.n
           avg_right == samples.right \div samples.n
       IN  /\ scan_data' = Append(scan_data,
                                  ScanEntry(scan_position, avg_left, avg_right))
           /\ ev' = PlainEvent("scan_append", TRUE, avg_left, avg_right)
    /\ run_pc' = "process_scan_advance"
    /\ LoopFrame
    /\ CalibFrame
    /\ UNCHANGED <<current_mode, position, servo_goal, scan_position,
                   left_rssi_buffer, right_rssi_buffer, last_scan_results,
                   last_auto_move_time, last_auto_write, now>>

\* process_scan: self.scan_position += scan_step_units, the move, and the
\* loop's sleep
ScanStepAdvance ==
    /\ run_pc = "process_scan_advance"
    /\ \E write_ok \in BOOLEAN :
        LET next_position == scan_position + scan_step_units
            m == move_servo(position, left_limit, right_limit, next_position,
                            write_ok)
        IN  /\ scan_position' = next_position
            /\ position' = m.position
            /\ servo_goal' = GoalAfter(servo_goal, m)
            /\ ev' = MoveEvent("scan_step", position, m, samples.left \div samples.n,
                               samples.right \div samples.n, now)
    /\ run_pc' = "loop"
    /\ samples' = NoSamples
    /\ now' = TickTime(0, FALSE)
    /\ LoopFrame
    /\ UNCHANGED <<current_mode, scan_data, left_rssi_buffer, right_rssi_buffer,
                   last_scan_results, last_auto_move_time, last_auto_write,
                   rssi_offset, noise_floor_left, noise_floor_right, rssi_max_left,
                   rssi_max_right>>

\* what a statement of start_scan in the request thread leaves alone
StartScanFrame ==
    UNCHANGED <<center_pos, left_limit, right_limit, rssi_offset, noise_floor_left,
                noise_floor_right, rssi_max_left, rssi_max_right, samples,
                left_rssi_buffer, right_rssi_buffer, last_auto_move_time, run_pc,
                now, horizon, servo_pos, last_auto_write, captured, vtxVars>>

\* process_command scan: the test of the mode, then start_scan:
\* self.current_mode = Mode.SCAN
CmdScanMode ==
    /\ cmd_pc = "idle"
    /\ ncmd < MaxCommands
    /\ ncmd' = ncmd + 1
    /\ IF current_mode # SCAN
       THEN /\ current_mode' = SCAN
            /\ cmd_pc' = "clear_data"
       ELSE UNCHANGED <<current_mode, cmd_pc>>
    /\ ev' = PlainEvent("scan", TRUE, 0, 0)
    /\ StartScanFrame
    /\ UNCHANGED <<position, servo_goal, scan_data, scan_position,
                   last_scan_results>>

\* start_scan: self.scan_data = []
CmdScanClearData ==
    /\ cmd_pc = "clear_data"
    /\ scan_data' = <<>>
    /\ cmd_pc' = "clear_results"
    /\ ev' = PlainEvent("scan_clear_data", TRUE, 0, 0)
    /\ StartScanFrame
    /\ UNCHANGED <<current_mode, position, servo_goal, scan_position,
                   last_scan_results, ncmd>>

\* start_scan: self.last_scan_results = {}
CmdScanClearResults ==
    /\ cmd_pc = "clear_results"
    /\ last_scan_results' = NoResults
    /\ cmd_pc' = "set_position"
    /\ ev' = PlainEvent("scan_clear_results", TRUE, 0, 0)
    /\ StartScanFrame
    /\ UNCHANGED <<current_mode, position, servo_goal, scan_data, scan_position,
                   ncmd>>

\* start_scan: self.scan_position = self.servo_config.left_limit
CmdScanSetPosition ==
    /\ cmd_pc = "set_position"
    /\ scan_position' = left_limit
    /\ cmd_pc' = "move"
    /\ ev' = PlainEvent("scan_set_position", TRUE, 0, 0)
    /\ StartScanFrame
    /\ UNCHANGED <<current_mode, position, servo_goal, scan_data,
                   last_scan_results, ncmd>>

\* start_scan: self.move_servo(self.scan_position, ...), then the sleep of the
\* request thread
CmdScanMove ==
    /\ cmd_pc = "move"
    /\ \E write_ok \in BOOLEAN :
        LET m == move_servo(position, left_limit, right_limit, scan_position,
                            write_ok)
        IN  /\ position' = m.position
            /\ servo_goal' = GoalAfter(servo_goal, m)
            /\ ev' = MoveEvent("scan_move", position, m, 0, 0, now)
    /\ cmd_pc' = "idle"
    /\ StartScanFrame
    /\ UNCHANGED <<current_mode, scan_data, scan_position, last_scan_results, ncmd>>

\* the state after run() has started the scan: the antenna on its way to the
\* left limit
InitRescan ==
    /\ current_mode = SCAN
    /\ position = ServoLeftLimit
    /\ servo_pos = ServoCenterPos
    /\ servo_goal = ServoLeftLimit
    /\ center_pos = ServoCenterPos
    /\ left_limit = ServoLeftLimit
    /\ right_limit = ServoRightLimit
    /\ rssi_offset = InitialRssiOffset
    /\ noise_floor_left = 0
    /\ noise_floor_right = 0
    /\ rssi_max_left = InitialRssiMax
    /\ rssi_max_right = InitialRssiMax
    /\ samples = NoSamples
    /\ left_rssi_buffer = <<>>
    /\ right_rssi_buffer = <<>>
    /\ scan_data = <<>>
    /\ scan_position = ServoLeftLimit
    /\ last_scan_results = NoResults
    /\ last_auto_move_time = 0
    /\ run_pc = "loop"
    /\ now = BootTime
    /\ horizon = BootTime + MaxRescanTime
    /\ ev = NoEvent
    /\ last_auto_write = [prev |-> 0, last |-> 0]
    /\ captured = [left |-> FALSE, right |-> FALSE]
    /\ ncmd = MaxCommands - 2
    /\ cmd_pc = "idle"
    /\ InitVtx
    /\ tx = NoTransmitter

NextRescan ==
    \/ ScanStepRead
    \/ ScanStepAppend
    \/ ScanStepAdvance
    \/ ManualTick
    \/ CmdManual
    \/ CmdScanMode
    \/ CmdScanClearData
    \/ CmdScanClearResults
    \/ CmdScanSetPosition
    \/ CmdScanMove
    \/ ServoMove

SpecRescan == InitRescan /\ [][NextRescan]_vars

-----------------------------------------------------------------------------
(* The VTX scan: the requests to start it and the workers *)

\* where the video transmitter can send
VtxTransmitters == {<<"R", 4>>, NoTransmitter}

InitVtxScan ==
    /\ InitTracker
    /\ servo_pos = ServoCenterPos
    /\ InitVtx
    /\ tx \in VtxTransmitters

NextVtx ==
    \/ start_vtx_scan
    \/ \E w \in Workers : TuneCell(w)
    \/ \E w \in Workers : StoreCell(w)
    \/ \E w \in Workers : ErrorClear(w)
    \/ \E w \in Workers : SwitchToBest(w)
    \/ \E w \in Workers : Finally(w)
    \/ PassTime

SpecVtx == InitVtxScan /\ [][NextVtx]_vars

\* _worker, from its try to the end of its finally block
WorkerStep(w) ==
    \/ TuneCell(w)
    \/ StoreCell(w)
    \/ ErrorClear(w)
    \/ SwitchToBest(w)
    \/ Finally(w)

InitVtxLive ==
    /\ InitTracker
    /\ servo_pos = ServoCenterPos
    /\ InitVtx
    /\ tx = NoTransmitter

\* the threads of the workers are scheduled, and their sleeps end
SpecVtxLive ==
    /\ InitVtxLive
    /\ [][NextVtx]_vars
    /\ \A w \in Workers : WF_vars(WorkerStep(w))
    /\ WF_vars(PassTime)

-----------------------------------------------------------------------------
(* The VTX scan while the operator sets the receiver through POST /vtx *)

\* vtx_endpoint, POST: set_band_channel for the cell asked for
VtxSet ==
    /\ UNCHANGED ncmd
    /\ \E target \in VtxTargets, raises \in {FALSE} \cup {nerr < MaxVtxErrors} :
        /\ set_band_channel(target[1], target[2], raises)
        /\ vev' = VtxEvent("vtx_set", 0, ~raises, target[1], target[2], 0, 0)
    /\ UNCHANGED <<current_mode, position, center_pos, left_limit, right_limit,
                   rssi_offset, noise_floor_left, noise_floor_right, rssi_max_left,
                   rssi_max_right, samples, left_rssi_buffer, right_rssi_buffer,
                   scan_data, scan_position, last_scan_results,
                   last_auto_move_time, run_pc, now, horizon, servo_pos, servo_goal,
                   ev, last_auto_write, captured, cmd_pc, tx, svcVars, skyzone,
                   vtx_scan_in_progress, vtx_scan_current, vtx_scan_grid,
                   vtx_scan_best, vtx_scan_thread>>

NextVtxSet ==
    \/ start_vtx_scan
    \/ \E w \in Workers : TuneCell(w)
    \/ \E w \in Workers : StoreCell(w)
    \/ \E w \in Workers : ErrorClear(w)
    \/ \E w \in Workers : SwitchToBest(w)
    \/ \E w \in Workers : Finally(w)
    \/ PassTime
    \/ VtxSet

\* no video transmitter is on the air: every cell reads the same noise
InitVtxSet ==
    /\ InitTracker
    /\ servo_pos = ServoCenterPos
    /\ InitVtx
    /\ tx = NoTransmitter

SpecVtxSet == InitVtxSet /\ [][NextVtxSet]_vars

-----------------------------------------------------------------------------
(* SkyzoneVTX bit by bit.  VtxService.set_band_channel validates its
   arguments, takes the lock, makes sure the receiver object exists and calls
   SkyzoneVTX.set_channel, which sends the word of register A and then the
   table value of the cell as the word of register B, 25 bits each, least
   significant bit first; then the service records band and channel.  The
   frame of SteadyViewController._write_register and the frequency the
   service reports are the reference the table values are compared with. *)

\* SkyzoneVTX.frequency_table
frequency_table ==
    [b \in Bands |->
        CASE b = "L" -> <<\H4C151, \H4C391, \H4D1F1, \H4E031,
                          \H4E291, \H4F0D1, \H4F331, \H50171>>
          [] b = "R" -> <<\H503B1, \H51211, \H52051, \H522B1,
                          \H530F1, \H53351, \H54191, \H543F1>>
          [] b = "F" -> <<\H520D1, \H52211, \H52351, \H53091,
                          \H531D1, \H53311, \H54051, \H54191>>
          [] b = "E" -> <<\H512B1, \H51171, \H51031, \H502F1,
                          \H541F1, \H54331, \H55071, \H551B1>>
          [] b = "B" -> <<\H52071, \H52191, \H522D1, \H523F1,
                          \H53131, \H53251, \H53391, \H540B1>>
          [] b = "A" -> <<\H540B1, \H53371, \H53231, \H530F1,
                          \H523B1, \H52271, \H52131, \H513F1>>]

\* the table of VtxService._get_frequency_mhz
FrequencyMhz ==
    [b \in Bands |->
        CASE b = "A" -> <<5865, 5845, 5825, 5805, 5785, 5765, 5745, 5725>>
          [] b = "B" -> <<5733, 5752, 5771, 5790, 5809, 5828, 5847, 5866>>
          [] b = "E" -> <<5705, 5685, 5665, 5645, 5885, 5905, 5925, 5945>>
          [] b = "F" -> <<5740, 5760, 5780, 5800, 5820, 5840, 5860, 5880>>
          [] b = "R" -> <<5658, 5695, 5732, 5769, 5806, 5843, 5880, 5917>>
          [] b = "L" -> <<5362, 5399, 5436, 5473, 5510, 5547, 5584, 5621>>]

\* VtxService._get_frequency_mhz: 0 when the lookup raises
get_frequency_mhz(band, channel) ==
    IF band \in Bands /\ channel \in 1..NumChannels
    THEN FrequencyMhz[band][channel]
    ELSE 0

\* a << n, and a | b on naturals
ShiftLeft(a, n) == a * 2^n
RECURSIVE BitOr(_, _)
BitOr(a, b) ==
    IF a = 0 THEN b
    ELSE IF b = 0 THEN a
    ELSE 2 * BitOr(a \div 2, b \div 2) + Max(a % 2, b % 2)

\* the registers and the write bit of the RX5808 (steadyview.py)
SYNTHESIZER_REG_A == 0
SYNTHESIZER_REG_B == 1
RX5808_WRITE_CTRL_BIT == 1

\* SteadyViewController._compute_data20_from_mhz
compute_data20_from_mhz(f_mhz) ==
    LET v == (f_mhz - 479) \div 2
    IN  BitOr(ShiftLeft(v \div 32, 7), v % 32)

\* the 25-bit word SteadyViewController._write_register assembles
write_register(reg, data20) ==
    BitOr(BitOr(ShiftLeft(data20 % 2^20, 5),
                ShiftLeft(RX5808_WRITE_CTRL_BIT % 2, 4)),
          reg % 16)

\* the word set_channel sends first, and the bits of a word
RegAWord == \H000110
WordBits == 25
\* _send_25bit_lsb: bit = (data >> i) & 0x01
BitAt(data, i) == (data \div 2^i) % 2

\* the value of the bits from..to of the wire, the first one the least
\* significant
RECURSIVE WordOf(_, _, _)
WordOf(bits, from, to) ==
    IF from > to THEN 0 ELSE bits[from] + 2 * WordOf(bits, from + 1, to)

\* the caller is between the entry and the exit of the with self._lock block
\* of set_band_channel
InSetChannel(c) ==
    vtx_call[c].pc \in {"ensure", "send", "set_band", "set_channel"}

\* what the steps of set_band_channel leave alone
SkyFrame ==
    UNCHANGED <<trackerVars, cmd_pc, vtx_scan_in_progress, vtx_scan_current,
                vtx_scan_grid, vtx_scan_best, vtx_scan_thread, tx, last_status,
                nstatus, snapshot>>

\* the observation of a step of set_band_channel: was is the band and channel
\* the service had recorded when the call was made
SetEvent(op, ret, band, channel, was) ==
    [op |-> op, w |-> 0, ret |-> ret, band |-> band, channel |-> channel,
     L |-> 0, R |-> 0, was |-> was]

\* set_band_channel(band, channel): the two tests of the arguments, which
\* raise ValueError before the lock is taken
SkyCall(c, bands, channels) ==
    /\ vtx_call[c].pc = "idle"
    /\ \E band \in bands, channel \in channels :
        IF band \notin Bands \/ channel < 1 \/ channel > 8
        THEN /\ vev' = SetEvent("invalid", FALSE, band, channel,
                                <<vtx_band, vtx_channel>>)
             /\ UNCHANGED vtx_call
        ELSE /\ vev' = SetEvent("call", TRUE, band, channel,
                                <<vtx_band, vtx_channel>>)
             /\ vtx_call' = [vtx_call EXCEPT ![c] = [pc |-> "lock", band |-> band,
                                                     channel |-> channel]]
    /\ UNCHANGED <<vtx_lock, vtx_band, vtx_channel, nerr, skyzone>>
    /\ SkyFrame

\* with self._lock
SkyAcquire(c) ==
    /\ vtx_call[c].pc = "lock"
    /\ Acquire(c)
    /\ vtx_call' = [vtx_call EXCEPT ![c].pc = "ensure"]
    /\ UNCHANGED <<vtx_band, vtx_channel, nerr, skyzone, vev>>
    /\ SkyFrame

\* the exception leaves the with block, which releases the lock, and the call
SkyRaise(c, op) ==
    /\ nerr < MaxVtxErrors
    /\ nerr' = nerr + 1
    /\ Release(c)
    /\ vtx_call' = [vtx_call EXCEPT ![c] = IdleCall]
    /\ vev' = [vev EXCEPT !.op = op, !.ret = FALSE]
    /\ skyzone' = [skyzone EXCEPT !.mosi = <<>>]

\* _ensure_initialized: SkyzoneVTX() when self._vtx is None; its GPIO setup
\* may raise, and then self._vtx stays None
SkyEnsure(c) ==
    /\ vtx_call[c].pc = "ensure"
    /\ \/ /\ skyzone' = [initialized |-> TRUE, mosi |-> <<>>]
          /\ vtx_call' = [vtx_call EXCEPT ![c].pc = "send"]
          /\ UNCHANGED <<vtx_lock, nerr, vev>>
       \/ /\ ~skyzone.initialized
          /\ SkyRaise(c, "init_error")
    /\ UNCHANGED <<vtx_band, vtx_channel>>
    /\ SkyFrame

\* SkyzoneVTX.set_channel: _send_bit for the next bit of the word of register
\* A and then of freq_value; a GPIO call may raise
SkySendBit(c) ==
    LET n == Len(skyzone.mosi)
        freq_value == frequency_table[vtx_call[c].band][vtx_call[c].channel]
        bit == IF n < WordBits THEN BitAt(RegAWord, n)
                               ELSE BitAt(freq_value, n - WordBits)
    IN  /\ vtx_call[c].pc = "send"
        /\ \/ /\ skyzone' = [skyzone EXCEPT !.mosi = Append(@, bit)]
              /\ vtx_call' = [vtx_call EXCEPT
                                ![c].pc = IF n + 1 = 2 * WordBits THEN "set_band"
                                                                  ELSE "send"]
              /\ UNCHANGED <<vtx_lock, nerr, vev>>
           \/ SkyRaise(c, "send_error")
        /\ UNCHANGED <<vtx_band, vtx_channel>>
        /\ SkyFrame

\* self._band = band
SkySetBand(c) ==
    /\ vtx_call[c].pc = "set_band"
    /\ vtx_band' = vtx_call[c].band
    /\ vtx_call' = [vtx_call EXCEPT ![c].pc = "set_channel"]
    /\ UNCHANGED <<vtx_lock, vtx_channel, nerr, skyzone, vev>>
    /\ SkyFrame

\* self._channel = channel, the end of the with block and the return
SkySetChannel(c) ==
    /\ vtx_call[c].pc = "set_channel"
    /\ vtx_channel' = vtx_call[c].channel
    /\ Release(c)
    /\ vtx_call' = [vtx_call EXCEPT ![c] = IdleCall]
    /\ vev' = [vev EXCEPT !.op = "set", !.ret = TRUE]
    /\ skyzone' = [skyzone EXCEPT !.mosi = <<>>]
    /\ UNCHANGED <<vtx_band, nerr>>
    /\ SkyFrame

\* the values a caller passes: every cell, and a band and channels that
\* set_band_channel rejects
CallBands == Bands \cup {"X"}
CallChannels == 0..(NumChannels + 1)

InitSky ==
    /\ InitTracker
    /\ servo_pos = ServoCenterPos
    /\ InitVtx
    /\ tx = NoTransmitter

NextSky ==
    \/ SkyCall("vtx_set", CallBands, CallChannels)
    \/ SkyAcquire("vtx_set")
    \/ SkyEnsure("vtx_set")
    \/ SkySendBit("vtx_set")
    \/ SkySetBand("vtx_set")
    \/ SkySetChannel("vtx_set")

SpecSky == InitSky /\ [][NextSky]_vars

-----------------------------------------------------------------------------
(* Properties of the tracker *)

Sign(x) == IF x > 0 THEN 1 ELSE IF x < 0 THEN 0 - 1 ELSE 0

\* C1: in every reachable state the commanded position lies within the limits:
\* left_limit <= position <= right_limit.
C1_PositionWithinLimits ==
    left_limit <= position /\ position <= right_limit

\* the entry finish_scan has selected is one of the least |L - R| among the
\* entries recorded, and the mode is Auto
ScanPickedLeast ==
    /\ last_scan_results.scan_complete
    /\ \E i \in 1..Len(scan_data) :
        /\ scan_data[i].position = last_scan_results.best_position
        /\ scan_data[i].difference = last_scan_results.min_difference
        /\ \A j \in 1..Len(scan_data) :
               scan_data[i].difference <= scan_data[j].difference
    /\ current_mode = AUTO

\* C3: when a scan finishes with at least 3 recorded entries, the entry selected
\* as best has the least |L - R| among all recorded entries, the commanded
\* position after the scan equals that entry's position, and the mode is Auto.
C3_ScanEndsAtBest ==
    (ev.op = "finish_scan_auto" /\ Len(scan_data) >= 3)
        => (ScanPickedLeast /\ position = last_scan_results.best_position)

\* the part of C3 that does not depend on the servo: selection and mode
C3_SelectionAndMode ==
    (ev.op = "finish_scan_auto" /\ Len(scan_data) >= 3) => ScanPickedLeast

\* C4: an Auto tick whose filtered difference satisfies |L - R| < DEADBAND
\* issues no servo write and leaves the commanded position unchanged.
C4_DeadbandNoMove ==
    (ev.op = "auto_tick" /\ Abs(ev.L - ev.R) < 500)
        => (~ev.wrote /\ position = ev.prev)

\* C4 witness: an Auto tick past the cooldown read a pair with 15 <= |L - R| < 500.
C4_Witness ==
    /\ ev.op = "auto_tick"
    /\ ev.L = 1000 /\ ev.R = 900
    /\ ev.t - last_auto_move_time >= 100

\* C5: whenever an Auto tick changes the commanded position, the sign of
\* (new - previous) is the sign of -(L - R).
C5_MoveSign ==
    (ev.op = "auto_tick" /\ position # ev.prev)
        => Sign(position - ev.prev) = Sign(0 - (ev.L - ev.R))

\* C6: two consecutive servo writes of the Auto controller are issued at least
\* the cooldown (100 ms) apart.
C6_WriteSeparation ==
    last_auto_write.prev # 0
        => last_auto_write.last - last_auto_write.prev >= 100

\* C6 witness: the Auto controller has issued two servo writes.
C6_Witness ==
    /\ last_auto_write.prev # 0
    /\ ev.op = "auto_tick" /\ ev.wrote

\* C10: after set_left_limit succeeds at actual position p, left_limit = p and no
\* servo write targets a position below p, and `left` at commanded position p
\* does not move; symmetrically for set_right_limit and `right`.
C10_CapturedLimitsHold ==
    /\ (ev.op = "set_left_limit" /\ ev.ret) => left_limit = ev.target
    /\ (captured.left /\ ev.wrote) => ev.target >= left_limit
    /\ (captured.left /\ ev.op = "left" /\ ev.prev = left_limit)
           => (~ev.wrote /\ position = ev.prev)
    /\ (ev.op = "set_right_limit" /\ ev.ret) => right_limit = ev.target
    /\ (captured.right /\ ev.wrote) => ev.target <= right_limit
    /\ (captured.right /\ ev.op = "right" /\ ev.prev = right_limit)
           => (~ev.wrote /\ position = ev.prev)

\* C11: once manual has been processed while the tracker scans, the control loop
\* makes no further scan step, issues no move to the best position of the scan,
\* and leaves the mode Manual: every step of the loop that follows the command
\* keeps current_mode = Manual.
C11_ManualStopsScan ==
    [][(ev.op = "manual" /\ ncmd' = ncmd)
          => /\ ev'.op # "scan_step"
             /\ ~(ev'.op = "finish_scan" /\ ev'.wrote)
             /\ current_mode' = MANUAL]_vars

\* C12: after any of the commands manual, left, right, home, set_angle with an
\* angle, set_center, set_left_limit, set_right_limit has been processed, from
\* whatever mode, the mode is Manual.
C12_CommandsLeaveManual ==
    (\/ ev.op \in {"manual", "left", "right", "home", "set_center",
                   "set_left_limit", "set_right_limit"}
     \/ (ev.op = "set_angle" /\ (ev.wrote \/ ev.ret)))
        => current_mode = MANUAL

\* C13: a command with an unknown name, and set_angle with a missing or
\* non-numeric angle, returns failure and changes neither the mode, the
\* commanded position, the limits, the centre nor the calibration.
C13_InvalidCommandNoChange ==
    [][(/\ ncmd' = ncmd + 1
        /\ \/ ev'.op = "unknown"
           \/ (ev'.op = "set_angle" /\ ~ev'.wrote /\ ~ev'.ret))
          => /\ ~ev'.ret
             /\ UNCHANGED <<current_mode, position, left_limit, right_limit,
                            center_pos, rssi_offset, noise_floor_left,
                            noise_floor_right>>]_vars

\* C14: a calibrate_minimum that has taken all its 80 samples ends with
\* noise_floor_left = mean(raw_L), noise_floor_right = mean(raw_R),
\* rssi_offset = mean(raw_L) - mean(raw_R), and the mode Manual.
C14_CalibrateMinResult ==
    (ev.op = "calibrate_min_end" /\ ev.ret)
        => /\ samples.n = 80
           /\ noise_floor_left * samples.n = samples.left
           /\ noise_floor_right * samples.n = samples.right
           /\ rssi_offset * samples.n = samples.left - samples.right
           /\ current_mode = MANUAL

\* C14 witness: a calibration has ended whose samples were not all equal: 70 of
\* them were (100, 160) and 10 were (180, 80).
C14_Witness ==
    /\ ev.op = "calibrate_min_end" /\ ev.ret
    /\ samples.n = 80
    /\ samples.left = 70 * 100 + 10 * 180
    /\ noise_floor_left = 110
    /\ noise_floor_right = 150
    /\ rssi_offset = 0 - 40

\* C15: while the loop is inside calibrate_minimum (calibrate_maximum) and a
\* command has set another mode, no step of the loop modifies noise_floor_left,
\* noise_floor_right, rssi_offset (rssi_max_left, rssi_max_right) or the mode
\* the command has set.
C15_InterruptedCalibration ==
    [][(/\ ncmd' = ncmd
        /\ \/ (run_pc = "calibrate_min" /\ current_mode # CALIBRATE_MIN)
           \/ (run_pc = "calibrate_max" /\ current_mode # CALIBRATE_MAX))
          => UNCHANGED <<noise_floor_left, noise_floor_right, rssi_offset,
                         rssi_max_left, rssi_max_right, current_mode>>]_vars

\* the handlers the request thread runs (send_command calls process_command)
CommandOps ==
    {"left", "right", "home", "set_angle", "set_center", "set_left_limit",
     "set_right_limit", "auto", "manual", "scan", "calibrate", "calibrate_max",
     "unknown"}
\* the handler of event e made a servo transaction: WritePosEx or ReadPos
ServoTransaction(e) ==
    e.wrote \/ e.op \in {"set_center", "set_left_limit", "set_right_limit"}
\* the step of event v of the VTX worker made an ADC transaction: read_rssi
AdcTransaction(v) == v.op = "store"

\* C17: the servo driver and the ADC are accessed only by the control loop: no
\* command handler makes a servo transaction and no step of the VTX-scan worker
\* makes an ADC transaction.
C17_OnlyLoopTouchesHardware ==
    /\ ev.op \in CommandOps => ~ServoTransaction(ev)
    /\ ~AdcTransaction(vev)

\* C18: a command is applied by the control loop at the top of a tick: while the
\* loop is in the middle of a tick (inside finish_scan or a calibration), the
\* processing of a command changes neither the mode, the scan state nor the
\* commanded position.
C18_NoChangeInsideTick ==
    [][(/\ ncmd' = ncmd + 1
        /\ run_pc \in {"finish_scan", "calibrate_min", "calibrate_max"})
          => UNCHANGED <<current_mode, scan_data, scan_position, position>>]_vars

-----------------------------------------------------------------------------
(* Properties of the VTX scan *)

\* the eight cells of a band, and the 48 cells band by band
Row(b) == [c \in 1..8 |-> <<b, c>>]
ExpectedVisits == Row("A") \o Row("B") \o Row("E") \o Row("F") \o Row("R") \o Row("L")

\* the values in the filled cells of the grid
GridValues ==
    {vtx_scan_grid[b][c] : b \in Bands, c \in 1..NumChannels} \ {None}
\* the first cell, in the order of ExpectedVisits, that holds value v
FirstCellWith(v) ==
    LET i == CHOOSE k \in 1..Len(ExpectedVisits) :
                 /\ vtx_scan_grid[ExpectedVisits[k][1]][ExpectedVisits[k][2]] = v
                 /\ \A j \in 1..(k - 1) :
                       vtx_scan_grid[ExpectedVisits[j][1]][ExpectedVisits[j][2]] # v
    IN  ExpectedVisits[i]

\* C2: a start_vtx_scan called while vtx_scan_in_progress is true returns False
\* and changes neither the grid, best, current, the flag nor any worker.
C2_StartRejectedWhileRunning ==
    [][(start_vtx_scan /\ vtx_scan_in_progress)
          => /\ vev'.op = "start" /\ ~vev'.ret
             /\ UNCHANGED <<vtx_scan_grid, vtx_scan_best, vtx_scan_current,
                            vtx_scan_in_progress, vtx_scan_thread, vtx_band,
                            vtx_channel>>]_vars

\* C2 witness: a start was refused while a worker, past its first cells, sleeps.
C2_Witness ==
    /\ vev.op = "start" /\ ~vev.ret
    /\ vtx_scan_in_progress
    /\ \E w \in Workers : vtx_scan_thread[w].pc = "store" /\ vtx_scan_thread[w].idx > 8

\* C7: a worker calls set_band_channel for the cells in the order A1..A8, B1..B8,
\* E, F, R, L, each cell once: its calls are always a prefix of that order and
\* are the 48 cells when the pass is over; and what it stores in a cell is the
\* sum L + R of the pair it read for the cell it has just tuned.
C7_VisitsEveryCellOnce ==
    /\ \A w \in Workers :
          LET t == vtx_scan_thread[w]
          IN  /\ t.pc \in {"tune", "store", "error_clear"}
                    => /\ Len(t.calls) <= Len(ExpectedVisits)
                       /\ t.calls = SubSeq(ExpectedVisits, 1, Len(t.calls))
              /\ t.pc = "switch" => t.calls = ExpectedVisits
    /\ vev.op = "store"
          => LET t == vtx_scan_thread[vev.w]
             IN  /\ vtx_scan_grid[vev.band][vev.channel] = vev.L + vev.R
                 /\ t.calls[Len(t.calls)] = <<vev.band, vev.channel>>

\* C7 witness: a worker that met no error has stored the last cell, L8.
C7_Witness ==
    /\ vev.op = "store" /\ vev.band = "L" /\ vev.channel = 8
    /\ vtx_scan_thread[vev.w].pc = "switch"
    /\ nerr = 0

\* C8: when a worker completes the pass (it has just stored its last cell),
\* vtx_scan_best.rssi is the maximum of the grid and best is the first cell, in
\* enumeration order, holding it.
C8_BestIsFirstMaximum ==
    \A w \in Workers :
        (vev.op = "store" /\ vev.w = w /\ vtx_scan_thread[w].pc = "switch")
            => /\ GridValues # {}
               /\ \A v \in GridValues : v <= vtx_scan_best.rssi
               /\ vtx_scan_best.rssi \in GridValues
               /\ <<vtx_scan_best.band, vtx_scan_best.channel>>
                      = FirstCellWith(vtx_scan_best.rssi)

\* C9: when a worker has completed the pass and made its last set_band_channel
\* call, that call was for (best.band, best.channel), and vtx_scan_in_progress is
\* still true: it becomes false only afterwards.
C9_LastCallIsBest ==
    \A w \in Workers :
        LET t == vtx_scan_thread[w]
        IN  /\ (t.pc = "switch") => vtx_scan_in_progress
            /\ (t.pc = "finally" /\ ~t.aborted)
                  => /\ vtx_scan_in_progress
                     /\ Len(t.calls) = Len(ExpectedVisits) + 1
                     /\ t.calls[Len(t.calls)]
                           = <<vtx_scan_best.band, vtx_scan_best.channel>>

\* C16: once set_band_channel has raised for a cell, the worker stops: it is in
\* its error branch or its finally block, it calls set_band_channel no more
\* (no later cell, no switch to best), and its steps leave the grid, best and
\* the receiver's band and channel as they are and vtx_scan_in_progress false.
C16_ErrorStopsWorker ==
    [][\A w \in Workers :
          vtx_scan_thread[w].aborted
              => /\ vtx_scan_thread[w].pc \in {"error_clear", "finally"}
                 /\ \/ vtx_scan_thread'[w].calls = vtx_scan_thread[w].calls
                    \/ vtx_scan_thread'[w] = DoneWorker
                 /\ vtx_scan_thread'[w] # vtx_scan_thread[w]
                       => /\ UNCHANGED <<vtx_scan_grid, vtx_scan_best, vtx_band,
                                         vtx_channel>>
                          /\ ~vtx_scan_in_progress']_vars

\* C16 witness: a worker that had filled the cells of band A met a driver error
\* at a later cell and has cleared the flag; the grid and best are still filled.
C16_Witness ==
    /\ vev.op = "error_clear"
    /\ vtx_scan_thread[vev.w].aborted
    /\ vtx_scan_thread[vev.w].idx > 8
    /\ ~vtx_scan_in_progress
    /\ vtx_scan_grid["A"][8] # None
    /\ vtx_scan_best.rssi # None

-----------------------------------------------------------------------------
(* Properties of VtxService and of the published status *)

\* the caller is inside a with self._lock block
InCriticalSection(c) ==
    vtx_call[c].pc \in {"emit", "set_band", "set_channel", "read_band",
                        "read_channel"}
\* the pairs that are set together: the initial one and the cells asked for
SetTogether == {<<"A", 1>>} \cup VtxTargets

\* C19: at most one caller is inside the critical section of VtxService at any
\* time, and the band and channel get_status has read are a pair that was set
\* together.
C19_VtxServiceExclusion ==
    /\ Cardinality({c \in Callers : InCriticalSection(c)}) <= 1
    /\ vtx_call["update_status"].pc \in {"add_vtx", "add_vtx_scan"}
          => <<vtx_call["update_status"].band, vtx_call["update_status"].channel>>
                 \in SetTogether

\* C19 witness: get_status has returned the pair L8, which one setter has set,
\* while the other setter waits for the lock with R4 and the receiver has been
\* set again since.
C19_Witness ==
    /\ vtx_call["update_status"].pc = "add_vtx"
    /\ vtx_call["update_status"].band = "L"
    /\ vtx_call["update_status"].channel = 8
    /\ \E c \in Setters : vtx_call[c].pc = "acquire" /\ vtx_call[c].band = "R"
    /\ \E c \in Setters : vtx_call[c].pc = "set_channel"

\* C20: a snapshot get_status returns after the first update_status has
\* returned holds the keys of a whole update: the base keys (mode, position,
\* RSSI) together with vtx and vtx_scan.
C20_SnapshotComplete ==
    snapshot.n >= 1 => (BaseKeys \cup {"vtx", "vtx_scan"}) \subseteq snapshot.keys

-----------------------------------------------------------------------------
(* Properties of the angular scan *)

\* the least integer not below n / d, for n >= 0 and d > 0
CeilDiv(n, d) == (n + d - 1) \div d

\* C21: an uninterrupted angular scan records
\* ceil((right_limit - left_limit) / scan_step_units) + 1 entries: when
\* process_scan finds the scan position past the right limit, scan_data has
\* that many entries.
C21_ScanLength ==
    ev.op = "finish_scan"
        => Len(scan_data) = CeilDiv(right_limit - left_limit, scan_step_units) + 1

\* C22: in every reachable state the positions of the entries of scan_data are
\* strictly increasing in list order, also when a scan command is processed by
\* the request thread while the control loop executes a scan step.
C22_ScanDataIncreasing ==
    \A i \in 1..(Len(scan_data) - 1) : scan_data[i].position < scan_data[i + 1].position

\* C23: when an angular scan reaches its end with fewer than 3 recorded
\* entries, the mode becomes Manual, no move to a best position is issued and
\* get_scan_results does not report scan_complete.
C23_UnderfilledScan ==
    (ev.op = "finish_scan" /\ Len(scan_data) < 3)
        => /\ current_mode = MANUAL
           /\ ~ev.wrote
           /\ position = ev.prev
           /\ ~get_scan_results.scan_complete

\* C23 witness: a scan over the limits 2047 and 2080 has ended with its two
\* entries, 2047 and 2080.
C23_Witness ==
    /\ ev.op = "finish_scan"
    /\ Len(scan_data) = 2
    /\ scan_data[2].position = 2080
    /\ scan_position > right_limit

\* the step is a scan command that calls start_scan
ScanStarts == ncmd' = ncmd + 1 /\ ev'.op = "scan" /\ current_mode # SCAN
\* the step is a finish_scan over at least 3 entries
ScanCompletes == ev'.op = "finish_scan" /\ run_pc = "loop" /\ Len(scan_data) >= 3

\* C24: get_scan_results returns a non-empty result (scan_complete, with
\* best_position, best_angle, min_difference and scan_data) exactly when a scan
\* has completed with at least 3 entries and no scan has been started since:
\* it is empty at the start, a completing scan makes it non-empty, a scan start
\* makes it empty, and no other step changes it.
C24_ResultsLifecycle ==
    /\ get_scan_results = NoResults
    /\ [][/\ ScanCompletes =>
                /\ get_scan_results'.scan_complete
                /\ get_scan_results'.best_position
                       = scan_data[BestIndex(scan_data)].position
                /\ get_scan_results'.best_angle = scan_data[BestIndex(scan_data)].angle
                /\ get_scan_results'.min_difference
                       = scan_data[BestIndex(scan_data)].difference
                /\ Len(get_scan_results'.scan_data) = Len(scan_data)
          /\ ScanStarts => get_scan_results' = NoResults
          /\ ~(ScanCompletes \/ ScanStarts) => get_scan_results' = get_scan_results
         ]_vars

\* C24 witness: a scan has completed, the tracker has followed the signal in
\* Auto, and a new scan has just been started: the results are empty again.
C24_Witness ==
    /\ ev.op = "scan"
    /\ current_mode = SCAN
    /\ scan_data = <<>>
    /\ last_auto_move_time > 0
    /\ get_scan_results = NoResults

-----------------------------------------------------------------------------
(* Properties of the error handling *)

\* C25: a tick in Manual, in Auto or of a scan during which an ADC read fails
\* leaves the tracker state unchanged and skips its action: it issues no servo
\* move, appends no entry to scan_data and, in Manual and Auto, pushes nothing
\* into the RSSI buffers.
C25_FailedReadSkipsTick ==
    [][(/\ now' > now
        /\ ev'.op \in {"manual_tick", "auto_tick", "scan_step"}
        /\ ev'.nfail > 0)
          => /\ ~ev'.wrote
             /\ UNCHANGED <<current_mode, position, scan_data, scan_position>>
             /\ ev'.op # "scan_step"
                   => UNCHANGED <<left_rssi_buffer, right_rssi_buffer>>]_vars

\* the last step was a tick of the control loop that raised
TickRaised ==
    /\ ev.op \in {"manual_tick", "auto_tick", "scan_step", "calibrate_min_end",
                  "calibrate_max_end"}
    /\ ~ev.ret
    /\ ~ev.wrote

\* C26: after a tick of the control loop has raised, in any mode, the tracker
\* is in Manual and the loop keeps running: the thread is at the top of its
\* loop, its next tick can be taken and a command can be processed.
C26_ExceptionToManual ==
    TickRaised
        => /\ current_mode = MANUAL
           /\ run_pc = "loop"
           /\ now <= horizon => ENABLED ManualTick
           /\ ncmd < MaxCommands => ENABLED CmdAuto

\* C26 witness: a tick in Manual has raised and, after the sleep of the except
\* branch and the command auto, the next tick has raised in Auto; the tracker
\* is in Manual again.
C26_Witness ==
    /\ TickRaised
    /\ ev.op = "auto_tick"
    /\ ev.t >= BootTime + ErrorSleep
    /\ current_mode = MANUAL

-----------------------------------------------------------------------------
(* Properties of the RSSI pipeline and of the angle map *)

\* C27: with RSSI buffers of size 1 and any calibration values, each successful
\* read_rssi returns exactly (raw_L - noise_floor_left,
\* raw_R - noise_floor_right + rssi_offset) for the raw counts of that read,
\* whatever the earlier reads were.
C27_ReadIsCalibratedRaw ==
    (ev.op = "read_rssi" /\ ev.ret)
        => /\ ev.L = ev.raw_left - noise_floor_left
           /\ ev.R = ev.raw_right - noise_floor_right + rssi_offset

\* C27 witness: under a calibration with non-zero noise floors and offset, the
\* third read in a row has succeeded on raw (1000, 2200) with buffers that
\* held other values.
C27_Witness ==
    /\ ev.op = "read_rssi"
    /\ ev.ret
    /\ ev.n = 3
    /\ ev.raw_left = 1000 /\ ev.raw_right = 2200
    /\ noise_floor_left = 110 /\ noise_floor_right = 1000 /\ rssi_offset = 0 - 40
    /\ ev.L = 890 /\ ev.R = 1160

\* C28: for every integer position p between the default limits 1100 and 2700,
\* angle_to_position(position_to_angle(p)) differs from p by at most 1.
C28_AngleRoundTrip ==
    ev.op = "round_trip" => Abs(ev.target - ev.prev) <= 1

\* C28 witness: the round trip of position 1106 (angle 0.5 degree) comes back
\* one unit lower, at 1105.
C28_Witness ==
    /\ ev.op = "round_trip"
    /\ ev.prev = 1106
    /\ ev.L = 5
    /\ ev.target = 1105

-----------------------------------------------------------------------------
(* Properties of the workers of the VTX scan *)

\* the worker is inside its scan loop
InScanLoop(w) == vtx_scan_thread[w].pc \in {"tune", "store"}

\* C29: at most one worker of the VTX scan executes its scan loop at any time,
\* and vtx_scan_in_progress is true while a worker is in its scan loop or
\* switches to the best cell, also when another worker has aborted on a
\* set_band_channel error and start_vtx_scan is called meanwhile.
C29_SingleWorker ==
    /\ Cardinality({w \in Workers : InScanLoop(w)}) <= 1
    /\ (\E w \in Workers : InScanLoop(w) \/ vtx_scan_thread[w].pc = "switch")
          => vtx_scan_in_progress

\* C30: the value a worker stores in grid cell (band, channel) is read while
\* the receiver is tuned to that cell: no other set_band_channel has taken
\* effect between the worker's set_band_channel and its read.
C30_CellReadOnItsFrequency ==
    vev.op = "store" => (vtx_band = vev.band /\ vtx_channel = vev.channel)

-----------------------------------------------------------------------------
(* Properties of the snapshots of the VTX scan *)

\* the cells of the grid that hold a value, by their rank in the enumeration
FilledCells ==
    {i \in 1..NumCells : vtx_scan_grid[CellBand(i)][CellChannel(i)] # None}

\* C31: in every snapshot get_vtx_scan_status can return (grid and best as
\* they are whenever vtx_scan_lock is free) the filled cells are a prefix of
\* the enumeration order; best is all-None exactly when no cell is filled, and
\* otherwise best.rssi is the maximum of the filled cells and the value of the
\* cell best names.
C31_FilledPrefixAndBest ==
    /\ \E n \in 0..NumCells : FilledCells = 1..n
    /\ (vtx_scan_best = NoBest) <=> (FilledCells = {})
    /\ FilledCells # {}
          => /\ vtx_scan_best.band \in Bands
             /\ vtx_scan_best.channel \in 1..NumChannels
             /\ \A v \in GridValues : v <= vtx_scan_best.rssi
             /\ vtx_scan_grid[vtx_scan_best.band][vtx_scan_best.channel]
                   = vtx_scan_best.rssi

-----------------------------------------------------------------------------
(* Properties of the words sent to the receiver *)

\* the frame of register B for frequency f_mhz
FrameB(f_mhz) == write_register(SYNTHESIZER_REG_B, compute_data20_from_mhz(f_mhz))

\* C32: when set_channel has clocked out its two words for a cell, the second
\* word (register B, the raw table value) is the frame
\* (payload << 5) | (1 << 4) | 0x1 whose payload is computed from the
\* frequency VtxService reports for that band and channel.
C32_RegisterBFrame ==
    vtx_call["vtx_set"].pc = "set_band"
        => WordOf(skyzone.mosi, WordBits + 1, 2 * WordBits)
              = FrameB(get_frequency_mhz(vtx_call["vtx_set"].band,
                                         vtx_call["vtx_set"].channel))

\* the last step of set_band_channel raised: a ValueError of the argument
\* tests, an error of SkyzoneVTX() or one of SkyzoneVTX.set_channel
SetRaised == vev.op \in {"invalid", "init_error", "send_error"}

\* C40: after a set_band_channel that raised (invalid band or channel,
\* receiver initialisation or SkyzoneVTX.set_channel raising) the band and
\* channel of the service are the ones it had when the call was made, the
\* lock is free and the call has returned, so the next call can take the lock.
C40_FailedSetLeavesService ==
    SetRaised
        => /\ <<vtx_band, vtx_channel>> = vev.was
           /\ vtx_lock = NoHolder
           /\ \A c \in Callers : ~InSetChannel(c)

\* C40 witness: the service holds R4; a set_band_channel for L8 has raised in
\* SkyzoneVTX.set_channel.
C40_Witness ==
    /\ vev.op = "send_error"
    /\ vev.band = "L"
    /\ vev.channel = 8
    /\ vev.was = <<"R", 4>>
    /\ vtx_band = "R"
    /\ vtx_channel = 4

-----------------------------------------------------------------------------
(* Properties of the motion range and of the Auto controller *)

\* C33: the motion range is never empty or inverted: left_limit < right_limit
\* in every reachable state, whatever set_left_limit and set_right_limit
\* capture.
C33_RangeNotEmpty == left_limit < right_limit

\* C37: the angle_degrees of every status snapshot is within 0.0..146.0,
\* whatever position in 0..4095 the servo reports, also one outside
\* [left_limit, right_limit].
C37_StatusAngleWithinSpan ==
    ev.op = "update_status" => (0 <= ev.L /\ ev.L <= 10 * range_degrees)

\* the rows of the table on |L - R| with T = RSSI_THRESHOLD
TableRow(abs_difference) ==
    IF abs_difference < rssi_threshold THEN [step |-> 0, speed |-> 0]
    ELSE IF abs_difference < 2 * rssi_threshold
    THEN [step |-> auto_step_small, speed |-> auto_speed]
    ELSE IF abs_difference < 4 * rssi_threshold
    THEN [step |-> auto_step_medium, speed |-> auto_speed + 200]
    ELSE [step |-> auto_step_large, speed |-> auto_speed + 400]

\* the rows, after the test of the deadband
RowBeyondDeadband(abs_difference) ==
    IF abs_difference < auto_deadband THEN [step |-> 0, speed |-> 0]
    ELSE TableRow(abs_difference)

\* the tick just made has acted as the row says: no write for a step of 0,
\* else a move_servo for the commanded position minus or plus the step, at
\* the speed of the row
TickFollows(RowOf(_)) ==
    LET difference == ev'.L - ev'.R
        row == RowOf(Abs(difference))
        new_position == IF difference > 0 THEN position - row.step
                        ELSE position + row.step
        clamped == Max(left_limit, Min(right_limit, new_position))
    IN  /\ ev'.op = "auto_tick"
        /\ IF row.step = 0
           THEN ~ev'.wrote /\ position' = position
           ELSE /\ ev'.target = clamped
                /\ ev'.speed = row.speed
                /\ ev'.wrote <=> Abs(clamped - position) >= 2

\* C34, as stated: an Auto tick past the cooldown follows the table on
\* |L - R|: no move in [0, T), STEP_SMALL at AUTO_SPEED in [T, 2T),
\* STEP_MEDIUM at AUTO_SPEED + 200 in [2T, 4T), STEP_LARGE at
\* AUTO_SPEED + 400 from 4T on.
C34_PiecewiseTable ==
    [][~InCooldown(now) => TickFollows(TableRow)]_vars

\* C34, amended: an Auto tick past the cooldown makes no move when
\* |L - R| < DEADBAND, and follows the table on |L - R| otherwise.
C34_TableBeyondDeadband ==
    [][~InCooldown(now) => TickFollows(RowBeyondDeadband)]_vars

\* C34 witness: a tick has read L - R = 500 and written the commanded
\* position minus STEP_LARGE at AUTO_SPEED + 400.
C34_Witness ==
    /\ ev.op = "auto_tick"
    /\ ev.wrote
    /\ ev.L - ev.R = auto_deadband
    /\ ev.target = ev.prev - auto_step_large
    /\ ev.speed = auto_speed + 400

\* C35: with the default constants every servo write of the Auto controller
\* targets the commanded position minus or plus STEP_LARGE (clamped to the
\* limits) at AUTO_SPEED + 400: the rows of STEP_SMALL and STEP_MEDIUM are
\* never taken.
C35_OnlyLargeSteps ==
    (ev.op = "auto_tick" /\ ev.wrote)
        => /\ ev.speed = auto_speed + 400
           /\ ev.target \in {Max(left_limit, Min(right_limit, ev.prev - auto_step_large)),
                              Max(left_limit, Min(right_limit, ev.prev + auto_step_large))}

\* C35 witness: a tick has read L - R = -800 and written the commanded
\* position plus STEP_LARGE; an earlier write has already moved the antenna.
C35_Witness ==
    /\ ev.op = "auto_tick"
    /\ ev.wrote
    /\ ev.L - ev.R = 0 - 800
    /\ ev.target = ev.prev + auto_step_large
    /\ ev.prev # ServoCenterPos

-----------------------------------------------------------------------------
(* Properties of move_servo *)

\* the target the command of the last event has passed to move_servo
RequestedTarget ==
    CASE ev.op = "left" -> ev.prev - step_units
      [] ev.op = "right" -> ev.prev + step_units
      [] OTHER -> center_pos

\* C36: move_servo(target), with c the target clamped to the limits: when
\* |c - position| < 2 it issues no write, leaves position and returns
\* success; otherwise it issues one write of c, and position becomes c and
\* success is returned when the write succeeds, position is unchanged and
\* failure is returned when the write fails.
C36_MoveServoContract ==
    ev.op \in {"left", "right", "home"}
        => LET c == Max(left_limit, Min(right_limit, RequestedTarget))
           IN  IF Abs(c - ev.prev) < 2
               THEN ~ev.wrote /\ position = ev.prev /\ ev.ret
               ELSE /\ ev.wrote
                    /\ ev.target = c
                    /\ \/ ev.ok /\ position = c /\ ev.ret
                       \/ ~ev.ok /\ position = ev.prev /\ ~ev.ret

-----------------------------------------------------------------------------
(* Termination of the scans *)

\* C38: with no further command and a fairly scheduled control loop, a scan
\* started with left_limit <= right_limit eventually leaves the mode Scan, to
\* Auto or to Manual, also when every servo write fails and every wait for
\* the servo runs into its timeout.
C38_ScanTerminates ==
    (current_mode = SCAN) ~> (current_mode \in {AUTO, MANUAL})

\* C38 witness: the scan over 2047..2114 has ended in Auto although no servo
\* write has succeeded since its start: the commanded position is still the
\* right limit.
C38_Witness ==
    /\ ev.op = "finish_scan_auto"
    /\ current_mode = AUTO
    /\ left_limit = 2047
    /\ right_limit = 2114
    /\ position = right_limit
    /\ servo_goal = right_limit
    /\ Len(scan_data) = MinScanEntries

-----------------------------------------------------------------------------
(* Termination of the VTX scan *)

\* start_vtx_scan has returned True for worker w
StartedTrue(w) == vev.op = "start" /\ vev.ret /\ vev.w = w

\* C39: every VTX scan for which start_vtx_scan returned True ends with
\* vtx_scan_in_progress false, whether it completes its pass or aborts on a
\* driver error; and start_vtx_scan returns True only after it has launched
\* the worker.
C39_VtxScanEnds ==
    /\ \A w \in Workers :
          StartedTrue(w) ~> (/\ vtx_scan_thread[w].pc = "done"
                            /\ vev.op = "finally"
                            /\ vev.w = w
                            /\ ~vtx_scan_in_progress)
    /\ [](\A w \in Workers : StartedTrue(w) => vtx_scan_thread[w].pc = "tune")

\* C39 witness: no driver error has occurred; the worker of the first start
\* has stored all its cells and has run its finally block; the flag is false.
C39_Witness ==
    /\ vev.op = "finally"
    /\ vev.w = 1
    /\ vtx_scan_thread[1].pc = "done"
    /\ nerr = 0
    /\ vtx_scan_grid["L"][NumChannels] # None
    /\ ~vtx_scan_in_progress

====
